---- MODULE Spec2Model ----
(***************************************************************************)
(* Edge resistance and snapping for interactive move/resize operations     *)
(* (src/src/edge-resistance.c).  The module models the per-grab edge cache *)
(* and the four per-side resistance records, the two search helpers on a   *)
(* sorted edge array, the resistance and snap engines, the reconciliation  *)
(* of a move and of a resize, the delayed-release timers in the event      *)
(* loop, and grab start / grab end.                                        *)
(***************************************************************************)
EXTENDS Integers, Sequences, FiniteSets, TLC

(***************************************************************************)
(* Rectangles and edges                                                    *)
(***************************************************************************)
ABS(n) == IF n < 0 THEN -n ELSE n

meta_rect(x, y, width, height) ==
  [x |-> x, y |-> y, width |-> width, height |-> height]

BOX_LEFT(r) == r.x
BOX_RIGHT(r) == r.x + r.width
BOX_TOP(r) == r.y
BOX_BOTTOM(r) == r.y + r.height

meta_rectangle_equal(a, b) == a = b

meta_rectangle_vert_overlap(rect1, rect2) ==
  /\ rect1.y < rect2.y + rect2.height
  /\ rect2.y < rect1.y + rect1.height

meta_rectangle_horiz_overlap(rect1, rect2) ==
  /\ rect1.x < rect2.x + rect2.width
  /\ rect2.x < rect1.x + rect1.width

\* An edge: a zero-thickness rectangle, the side of the moving rectangle it
\* resists, and its class.
MetaEdge(rect, side_type, edge_type) ==
  [rect |-> rect, side_type |-> side_type, edge_type |-> edge_type]

\* GArray element access: C indices start at 0.
g_array_index(edges, i) == edges[i + 1]

\* "compare = horizontal ? edge->rect.x : edge->rect.y"
edge_compare(edge, horizontal) ==
  IF horizontal THEN edge.rect.x ELSE edge.rect.y

\* "edges_align = horizontal ? vert_overlap (...) : horiz_overlap (...)"
edges_align(edge, new_rect, horizontal) ==
  IF horizontal
  THEN meta_rectangle_vert_overlap(edge.rect, new_rect)
  ELSE meta_rectangle_horiz_overlap(edge.rect, new_rect)

INT_MAX == 2147483647

(***************************************************************************)
(* find_index_of_edge_near_position                                        *)
(***************************************************************************)
\* The binary search loop both search helpers start with; the result is the
\* last index probed (mid), which is 0 when the loop body never runs.
RECURSIVE binary_search(_, _, _, _, _, _)
binary_search(edges, position, horizontal, low, high, mid) ==
  IF low < high
  THEN LET m == low + ((high - low) \div 2)
           compare == edge_compare(g_array_index(edges, m), horizontal)
       IN  IF compare = position
           THEN m
           ELSE IF compare > position
                THEN binary_search(edges, position, horizontal, low, m - 1, m)
                ELSE binary_search(edges, position, horizontal, m + 1, high, m)
  ELSE mid

\* while (compare >= position && mid > 0) mid--;
RECURSIVE min_walk_downMutant(_, _, _, _)
min_walk_downMutant(edges, position, horizontal, mid) ==
  IF edge_compare(g_array_index(edges, mid), horizontal) > position /\ mid > 0
  THEN min_walk_downMutant(edges, position, horizontal, mid - 1)
  ELSE mid

RECURSIVE min_walk_down(_, _, _, _)
min_walk_down(edges, position, horizontal, mid) ==
  IF edge_compare(g_array_index(edges, mid), horizontal) >= position /\ mid > 0
  THEN min_walk_down(edges, position, horizontal, mid - 1)
  ELSE mid

\* while (compare < position && mid < len - 1) mid++;
RECURSIVE min_walk_up(_, _, _, _)
min_walk_up(edges, position, horizontal, mid) ==
  IF /\ edge_compare(g_array_index(edges, mid), horizontal) < position
     /\ mid < Len(edges) - 1
  THEN min_walk_up(edges, position, horizontal, mid + 1)
  ELSE mid

\* while (compare <= position && mid < len - 1) mid++;
RECURSIVE max_walk_up(_, _, _, _)
max_walk_up(edges, position, horizontal, mid) ==
  IF /\ edge_compare(g_array_index(edges, mid), horizontal) <= position
     /\ mid < Len(edges) - 1
  THEN max_walk_up(edges, position, horizontal, mid + 1)
  ELSE mid

\* while (compare > position && mid > 0) mid--;
RECURSIVE max_walk_down(_, _, _, _)
max_walk_down(edges, position, horizontal, mid) ==
  IF edge_compare(g_array_index(edges, mid), horizontal) > position /\ mid > 0
  THEN max_walk_down(edges, position, horizontal, mid - 1)
  ELSE mid

find_index_of_edge_near_position(edges, position, want_interval_min, horizontal) ==
  LET mid0 == binary_search(edges, position, horizontal, 0, Len(edges) - 1, 0)
  IN  IF want_interval_min
      THEN LET mid1 == min_walk_down(edges, position, horizontal, mid0)
               mid2 == min_walk_up(edges, position, horizontal, mid1)
           IN  IF edge_compare(g_array_index(edges, mid2), horizontal) < position
               THEN Len(edges)
               ELSE mid2
      ELSE LET mid1 == max_walk_up(edges, position, horizontal, mid0)
               mid2 == max_walk_down(edges, position, horizontal, mid1)
           IN  IF edge_compare(g_array_index(edges, mid2), horizontal) > position
               THEN -1
               ELSE mid2

(***************************************************************************)
(* find_nearest_position                                                   *)
(***************************************************************************)
points_on_same_side(ref, pt1, pt2) == (pt1 - ref) * (pt2 - ref) > 0

\* The test each of the three scans applies to an edge.
nearest_candidateMutant(edge, position, old_position, new_rect, horizontal, only_forward) ==
  edges_align(edge, new_rect, horizontal)

nearest_candidate(edge, position, old_position, new_rect, horizontal, only_forward) ==
  /\ edges_align(edge, new_rect, horizontal)
  /\ \/ ~only_forward
     \/ ~points_on_same_side(position, edge_compare(edge, horizontal), old_position)

\* "if (dist < best_dist) { best = compare; best_dist = dist; }"
take_if_closer(b, compare, position) ==
  IF ABS(compare - position) < b.best_dist
  THEN [best |-> compare, best_dist |-> ABS(compare - position)]
  ELSE b

\* for (i = mid + 1; i < len; i++): stops at the first candidate.
RECURSIVE search_higher(_, _, _, _, _, _, _, _)
search_higher(edges, i, b, position, old_position, new_rect, horizontal, only_forward) ==
  IF i < Len(edges)
  THEN LET edge == g_array_index(edges, i)
       IN  IF nearest_candidate(edge, position, old_position, new_rect,
                                horizontal, only_forward)
           THEN take_if_closer(b, edge_compare(edge, horizontal), position)
           ELSE search_higher(edges, i + 1, b, position, old_position, new_rect,
                              horizontal, only_forward)
  ELSE b

\* for (i = mid - 1; i >= 0; i--): stops at the first candidate.
RECURSIVE search_lower(_, _, _, _, _, _, _, _)
search_lower(edges, i, b, position, old_position, new_rect, horizontal, only_forward) ==
  IF i >= 0
  THEN LET edge == g_array_index(edges, i)
       IN  IF nearest_candidate(edge, position, old_position, new_rect,
                                horizontal, only_forward)
           THEN take_if_closer(b, edge_compare(edge, horizontal), position)
           ELSE search_lower(edges, i - 1, b, position, old_position, new_rect,
                             horizontal, only_forward)
  ELSE b

find_nearest_position(edges, position, old_position, new_rect, horizontal, only_forward) ==
  LET mid == binary_search(edges, position, horizontal, 0, Len(edges) - 1, 0)
      b0  == [best |-> old_position, best_dist |-> INT_MAX]
      e   == g_array_index(edges, mid)
      b1  == IF nearest_candidate(e, position, old_position, new_rect,
                                  horizontal, only_forward)
             THEN take_if_closer(b0, edge_compare(e, horizontal), position)
             ELSE b0
      b2  == search_higher(edges, mid + 1, b1, position, old_position, new_rect,
                           horizontal, only_forward)
      b3  == search_lower(edges, mid - 1, b2, position, old_position, new_rect,
                          horizontal, only_forward)
  IN  b3.best

(***************************************************************************)
(* The windows a grab can drag, with the two MetaWindow flags the timeout  *)
(* resistance reads.                                                       *)
(***************************************************************************)
Windows == {"w1", "w2"}

require_on_single_xinerama(window) == window = "w1"

require_fully_onscreen(window) == window = "w1"

\* The value of a field of the g_new'ed MetaEdgeResistanceData block that no
\* statement has written yet.
Indeterminate == "indeterminate"

(***************************************************************************)
(* apply_edge_resistance                                                   *)
(***************************************************************************)
PIXEL_DISTANCE_THRESHOLD_TOWARDS_WINDOW == 16
PIXEL_DISTANCE_THRESHOLD_AWAYFROM_WINDOW == 8
PIXEL_DISTANCE_THRESHOLD_TOWARDS_XINERAMA == 32
PIXEL_DISTANCE_THRESHOLD_AWAYFROM_XINERAMA == 8
PIXEL_DISTANCE_THRESHOLD_TOWARDS_SCREEN == 32
PIXEL_DISTANCE_THRESHOLD_AWAYFROM_SCREEN == 8
TIMEOUT_RESISTANCE_LENGTH_MS_WINDOW == 0
TIMEOUT_RESISTANCE_LENGTH_MS_XINERAMA == 100
TIMEOUT_RESISTANCE_LENGTH_MS_SCREEN == 750
KEYBOARD_BUILDUP_THRESHOLD_TOWARDS_WINDOW == 16
KEYBOARD_BUILDUP_THRESHOLD_AWAYFROM_WINDOW == 16
KEYBOARD_BUILDUP_THRESHOLD_TOWARDS_XINERAMA == 24
KEYBOARD_BUILDUP_THRESHOLD_AWAYFROM_XINERAMA == 16
KEYBOARD_BUILDUP_THRESHOLD_TOWARDS_SCREEN == 32
KEYBOARD_BUILDUP_THRESHOLD_AWAYFROM_SCREEN == 16

\* "Quit if no movement was specified"
no_movementMutant(old_pos, new_pos) == FALSE

no_movement(old_pos, new_pos) == old_pos = new_pos

movement_towards_edge(side, increment) ==
  CASE side \in {"LEFT", "TOP"} -> increment < 0
    [] side \in {"RIGHT", "BOTTOM"} -> increment > 0

\* "Remove the old timeout if it's no longer relevant": the condition.
timeout_no_longer_relevantMutant(resistance_data, old_pos, new_pos) ==
  /\ resistance_data.timeout_setup
  /\ resistance_data.timeout_edge_pos > old_pos
  /\ resistance_data.timeout_edge_pos > new_pos

timeout_no_longer_relevant(resistance_data, old_pos, new_pos) ==
  /\ resistance_data.timeout_setup
  /\ \/ /\ resistance_data.timeout_edge_pos > old_pos
        /\ resistance_data.timeout_edge_pos > new_pos
     \/ /\ resistance_data.timeout_edge_pos < old_pos
        /\ resistance_data.timeout_edge_pos < new_pos

\* The sources the stale-timeout branch hands to g_source_remove.
stale_timeout_removedMutant(resistance_data) == {}

stale_timeout_removed(resistance_data) ==
  IF resistance_data.timeout_id # 0
  THEN {resistance_data.timeout_id}
  ELSE {}

\* The switch on edge->edge_type that picks the keyboard resistance.
keyboard_resistanceMutant(edge, increment) ==
  CASE edge.edge_type = "WINDOW" -> KEYBOARD_BUILDUP_THRESHOLD_TOWARDS_XINERAMA
    [] edge.edge_type = "XINERAMA" -> KEYBOARD_BUILDUP_THRESHOLD_TOWARDS_XINERAMA
    [] edge.edge_type = "SCREEN" -> KEYBOARD_BUILDUP_THRESHOLD_TOWARDS_SCREEN

keyboard_resistance(edge, increment) ==
  CASE edge.edge_type = "WINDOW" ->
         IF movement_towards_edge(edge.side_type, increment)
         THEN KEYBOARD_BUILDUP_THRESHOLD_TOWARDS_WINDOW
         ELSE KEYBOARD_BUILDUP_THRESHOLD_AWAYFROM_WINDOW
    [] edge.edge_type = "XINERAMA" ->
         IF movement_towards_edge(edge.side_type, increment)
         THEN KEYBOARD_BUILDUP_THRESHOLD_TOWARDS_XINERAMA
         ELSE KEYBOARD_BUILDUP_THRESHOLD_AWAYFROM_XINERAMA
    [] edge.edge_type = "SCREEN" ->
         IF movement_towards_edge(edge.side_type, increment)
         THEN KEYBOARD_BUILDUP_THRESHOLD_TOWARDS_SCREEN
         ELSE KEYBOARD_BUILDUP_THRESHOLD_AWAYFROM_SCREEN

\* INFINITE RESISTANCE for screen edges: the condition.
infinite_resistance(edge, resistance_data, increment) ==
  /\ edge.edge_type = "SCREEN"
  /\ ~resistance_data.allow_past_screen_edge
  /\ movement_towards_edge(edge.side_type, increment)

\* The switch that picks the length of the timeout resistance.
timeout_length_msMutant(edge, window) ==
  CASE edge.edge_type = "WINDOW" -> TIMEOUT_RESISTANCE_LENGTH_MS_XINERAMA
    [] edge.edge_type = "XINERAMA" ->
         IF require_on_single_xinerama(window)
         THEN TIMEOUT_RESISTANCE_LENGTH_MS_XINERAMA
         ELSE 0
    [] edge.edge_type = "SCREEN" ->
         IF require_fully_onscreen(window)
         THEN TIMEOUT_RESISTANCE_LENGTH_MS_SCREEN
         ELSE 0

timeout_length_ms(edge, window) ==
  CASE edge.edge_type = "WINDOW" -> TIMEOUT_RESISTANCE_LENGTH_MS_WINDOW
    [] edge.edge_type = "XINERAMA" ->
         IF require_on_single_xinerama(window)
         THEN TIMEOUT_RESISTANCE_LENGTH_MS_XINERAMA
         ELSE 0
    [] edge.edge_type = "SCREEN" ->
         IF require_fully_onscreen(window)
         THEN TIMEOUT_RESISTANCE_LENGTH_MS_SCREEN
         ELSE 0

\* "if (!resistance_data->timeout_setup && timeout_length_ms != 0)"
timeout_to_be_addedMutant(resistance_data, length_ms) == length_ms # 0

timeout_to_be_added(resistance_data, length_ms) ==
  ~resistance_data.timeout_setup /\ length_ms # 0

\* The switch that picks the pixel distance threshold.
pixel_distance_thresholdMutant(edge, increment) ==
  CASE edge.edge_type = "WINDOW" -> PIXEL_DISTANCE_THRESHOLD_AWAYFROM_WINDOW
    [] edge.edge_type = "XINERAMA" -> PIXEL_DISTANCE_THRESHOLD_AWAYFROM_XINERAMA
    [] edge.edge_type = "SCREEN" -> PIXEL_DISTANCE_THRESHOLD_AWAYFROM_SCREEN

pixel_distance_threshold(edge, increment) ==
  CASE edge.edge_type = "WINDOW" ->
         IF movement_towards_edge(edge.side_type, increment)
         THEN PIXEL_DISTANCE_THRESHOLD_TOWARDS_WINDOW
         ELSE PIXEL_DISTANCE_THRESHOLD_AWAYFROM_WINDOW
    [] edge.edge_type = "XINERAMA" ->
         IF movement_towards_edge(edge.side_type, increment)
         THEN PIXEL_DISTANCE_THRESHOLD_TOWARDS_XINERAMA
         ELSE PIXEL_DISTANCE_THRESHOLD_AWAYFROM_XINERAMA
    [] edge.edge_type = "SCREEN" ->
         IF movement_towards_edge(edge.side_type, increment)
         THEN PIXEL_DISTANCE_THRESHOLD_TOWARDS_SCREEN
         ELSE PIXEL_DISTANCE_THRESHOLD_AWAYFROM_SCREEN

\* "Clear any previous buildup if we've run into an edge at a different
\* location than what we were building up on before": the condition.
buildup_to_be_clearedMutant(okay, compare, buildup_edge) == okay

buildup_to_be_cleared(okay, compare, buildup_edge) ==
  okay /\ compare # buildup_edge

\* The buildup a keyboard call leaves when an edge stops it.
buildup_when_stoppedMutant(keyboard_buildup, new_pos, compare) ==
  keyboard_buildup + ABS(new_pos - compare)

buildup_when_stopped(keyboard_buildup, new_pos, compare) ==
  IF keyboard_buildup # 0
  THEN keyboard_buildup + ABS(new_pos - compare)
  ELSE 1

\* What one call hands back: the returned coordinate, the side's record as the
\* call leaves it, the source ids it removed, whether it called
\* g_timeout_add (the new source then has the id new_id), and the indices
\* at which the loop read the array.
resistance_result(pos, resistance_data, removed, added, read) ==
  [pos |-> pos, data |-> resistance_data, removed |-> removed, added |-> added,
   read |-> read]

\* The condition of the while loop.
loop_goes_onMutant(c, i) ==
  (c.increasing /\ i < c.end) \/ (~c.increasing /\ i > c.end)

loop_goes_on(c, i) ==
  (c.increasing /\ i <= c.end) \/ (~c.increasing /\ i >= c.end)

\* The indices from begin to i, the ones g_array_index was called with when
\* the loop is at i.
indices_read(c, i) ==
  IF c.increasing THEN c.begin .. i ELSE i .. c.begin

\* The loop "over all these edges we're moving past/to" and the code after
\* it.  c holds what the loop only reads (the call's arguments, end,
\* increasing, and new_id, the id g_timeout_add would return); okay and
\* buildup_edge are okay_to_clear_keyboard_buildup and keyboard_buildup_edge.
RECURSIVE resistance_loop(_, _, _, _, _, _)
resistance_loop(c, i, rd, okay, buildup_edge, removed) ==
  LET increment == IF c.increasing THEN 1 ELSE -1
  IN
  IF loop_goes_on(c, i)
  THEN
    LET edge == g_array_index(c.edges, i)
        compare == edge_compare(edge, c.xdir)
    IN
    IF ~edges_align(edge, c.new_rect, c.xdir)
    THEN resistance_loop(c, i + increment, rd, okay, buildup_edge, removed)
    ELSE IF c.keyboard_op
    THEN
      LET resistance == keyboard_resistance(edge, increment)
          clear == buildup_to_be_cleared(okay, compare, buildup_edge)
          rd1 == IF clear THEN [rd EXCEPT !.keyboard_buildup = 0] ELSE rd
          threshold == resistance - rd1.keyboard_buildup
      IN
      IF ABS(compare - c.new_pos) < threshold
      THEN resistance_result(
             compare,
             [rd1 EXCEPT !.keyboard_buildup =
                buildup_when_stopped(@, c.new_pos, compare)],
             removed, FALSE, indices_read(c, i))
      ELSE resistance_loop(c, i + increment, rd1, TRUE, compare, removed)
    ELSE
      IF infinite_resistance(edge, rd, increment)
      THEN resistance_result(compare, rd, removed, FALSE, indices_read(c, i))
      ELSE
        LET towards == movement_towards_edge(edge.side_type, increment)
            length_ms == IF towards THEN timeout_length_ms(edge, c.window) ELSE 0
            add == towards /\ timeout_to_be_added(rd, length_ms)
            rd1 == IF add
                   THEN [rd EXCEPT !.timeout_id = c.new_id,
                                   !.timeout_setup = TRUE,
                                   !.timeout_edge_pos = compare,
                                   !.timeout_over = FALSE,
                                   !.timeout_func = c.timeout_func,
                                   !.window = c.window]
                   ELSE rd
        IN
        IF towards /\ length_ms # 0 /\ ~rd1.timeout_over
        THEN resistance_result(compare, rd1, removed, add, indices_read(c, i))
        ELSE IF ABS(compare - c.new_pos) < pixel_distance_threshold(edge, increment)
        THEN resistance_result(compare, rd1, removed, add, indices_read(c, i))
        ELSE resistance_loop(c, i + increment, rd1, okay, buildup_edge, removed)
  ELSE
    resistance_result(
      c.new_pos,
      IF okay /\ c.new_pos # buildup_edge
      THEN [rd EXCEPT !.keyboard_buildup = 0]
      ELSE rd,
      removed, FALSE, indices_read(c, i - increment))

\* "begin = find_index_of_edge_near_position (edges, old_pos, increasing,
\* xdir)": as if the search were asked for the other boundary.
walk_beginMutant(edges, old_pos, increasing, xdir) ==
  find_index_of_edge_near_position(edges, old_pos, ~increasing, xdir)

walk_begin(edges, old_pos, increasing, xdir) ==
  find_index_of_edge_near_position(edges, old_pos, increasing, xdir)

apply_edge_resistance(window, old_pos, new_pos, new_rect, edges, resistance_data, timeout_func, xdir, keyboard_op, new_id) ==
  IF no_movement(old_pos, new_pos)
  THEN resistance_result(new_pos, resistance_data, {}, FALSE, {})
  ELSE
    LET increasing == new_pos > old_pos
        stale == timeout_no_longer_relevant(resistance_data, old_pos, new_pos)
        removed == IF stale THEN stale_timeout_removed(resistance_data) ELSE {}
        rd0 == IF stale
               THEN [resistance_data EXCEPT !.timeout_setup = FALSE,
                                            !.timeout_id = 0]
               ELSE resistance_data
        begin == walk_begin(edges, old_pos, increasing, xdir)
        c == [window |-> window, new_pos |-> new_pos, new_rect |-> new_rect,
              edges |-> edges, timeout_func |-> timeout_func, xdir |-> xdir,
              keyboard_op |-> keyboard_op, new_id |-> new_id,
              increasing |-> increasing, begin |-> begin,
              end |-> find_index_of_edge_near_position(edges, new_pos,
                                                       ~increasing, xdir)]
    IN  resistance_loop(c, begin, rd0, FALSE, INT_MAX, removed)

(***************************************************************************)
(* apply_edge_snapping                                                     *)
(***************************************************************************)
\* "Find the better of pos1 and pos2"
snap_best(pos1, pos2, new_pos) ==
  IF ABS(pos1 - new_pos) < ABS(pos2 - new_pos) THEN pos1 ELSE pos2

\* The mouse snap-moving test that makes the function return old_pos.
ignore_snap_movementMutant(best, old_pos, new_pos, keyboard_op) == FALSE

ignore_snap_movement(best, old_pos, new_pos, keyboard_op) ==
  /\ ~keyboard_op
  /\ ABS(best - old_pos) >= 8
  /\ ABS(new_pos - old_pos) < 8

apply_edge_snapping(old_pos, new_pos, new_rect, edges1, edges2, xdir, keyboard_op) ==
  IF no_movement(old_pos, new_pos)
  THEN new_pos
  ELSE
    LET pos1 == find_nearest_position(edges1, new_pos, old_pos, new_rect,
                                      xdir, keyboard_op)
        pos2 == find_nearest_position(edges2, new_pos, old_pos, new_rect,
                                      xdir, keyboard_op)
        best == snap_best(pos1, pos2, new_pos)
    IN  IF keyboard_op /\ ~points_on_same_side(old_pos, pos1, new_pos)
        THEN pos2
        ELSE IF keyboard_op /\ ~points_on_same_side(old_pos, pos2, new_pos)
        THEN pos1
        ELSE IF ignore_snap_movement(best, old_pos, new_pos, keyboard_op)
        THEN old_pos
        ELSE best

(***************************************************************************)
(* State                                                                   *)
(***************************************************************************)
VARIABLES
  grab_edge_resistance_data, \* display->grab_edge_resistance_data
  grab_window,               \* display->grab_window
  grab_op,                   \* display->grab_op: what the grab does, and how
  outer_rect,                \* the outer rectangle of the grabbed window
  sources,                   \* the timeout sources pending in the main loop
  timeout_log,               \* per source id of this grab: what became of it
  use_after_free,            \* a callback ran on a freed resistance record
  last,                      \* the last call made and what it returned
  search                     \* a sorted edge array and the last search on it

vars == <<grab_edge_resistance_data, grab_window, grab_op, outer_rect, sources,
          timeout_log, use_after_free, last, search>>

grab_vars == <<grab_edge_resistance_data, grab_window, grab_op, outer_rect,
               sources, timeout_log, use_after_free, last>>

NULL == [null |-> TRUE]

Sides == {"LEFT", "RIGHT", "TOP", "BOTTOM"}

\* edge_data-><side>_edges and edge_data-><side>_data
side_edges(edge_data, side) ==
  CASE side = "LEFT" -> edge_data.left_edges
    [] side = "RIGHT" -> edge_data.right_edges
    [] side = "TOP" -> edge_data.top_edges
    [] side = "BOTTOM" -> edge_data.bottom_edges

side_data(edge_data, side) ==
  CASE side = "LEFT" -> edge_data.left_data
    [] side = "RIGHT" -> edge_data.right_data
    [] side = "TOP" -> edge_data.top_data
    [] side = "BOTTOM" -> edge_data.bottom_data

(***************************************************************************)
(* Bounds and inputs                                                       *)
(***************************************************************************)
\* How many timeout sources one grab may add.
MaxTimeouts == 2

\* How far above the screen a proposed rectangle may reach.
MaxOffscreen == 1

screen_rect == meta_rect(0, 0, 24, 4)

\* workspace->screen_edges and workspace->xinerama_edges: the four sides of
\* the screen, and the boundary between two monitors.
screen_edges ==
  << MetaEdge(meta_rect(0, 0, 0, 4), "LEFT", "SCREEN"),
     MetaEdge(meta_rect(24, 0, 0, 4), "RIGHT", "SCREEN"),
     MetaEdge(meta_rect(0, 0, 24, 0), "TOP", "SCREEN"),
     MetaEdge(meta_rect(0, 4, 24, 0), "BOTTOM", "SCREEN") >>

xinerama_edges ==
  << MetaEdge(meta_rect(6, 0, 0, 4), "LEFT", "XINERAMA"),
     MetaEdge(meta_rect(6, 0, 0, 4), "RIGHT", "XINERAMA") >>

\* display->grab_screen->active_workspace: the two lists cache_edges is
\* handed.
active_workspace ==
  [xinerama_edges |-> xinerama_edges, screen_edges |-> screen_edges]

\* The windows of the active workspace besides the grabbed one, bottom to top.
other_windows ==
  << [id |-> "desktop", rect |-> meta_rect(0, 0, 24, 4), type |-> "DESKTOP",
      showing |-> TRUE, screen |-> "screen0"],
     [id |-> "o1", rect |-> meta_rect(16, 0, 4, 2), type |-> "NORMAL",
      showing |-> TRUE, screen |-> "screen0"] >>

\* Where the grabbed window is when the grab begins.
initial_rects == {meta_rect(10, 1, 4, 2)}

\* Where it is when a keyboard move begins: its right side on the left side
\* of the window o1.
keyboard_rects == {meta_rect(12, 1, 4, 2)}

\* What a grab does: a move or a resize (with the gravity of the handle
\* dragged), driven by the mouse or by the keyboard.
MouseMove == [resize |-> FALSE, keyboard |-> FALSE, gravity |-> "StaticGravity"]

KeyboardMove == [resize |-> FALSE, keyboard |-> TRUE, gravity |-> "StaticGravity"]

ResizeOps ==
  {[resize |-> TRUE, keyboard |-> FALSE, gravity |-> g] :
     g \in {"NorthWestGravity", "SouthEastGravity"}}

GrabOps == {MouseMove} \cup ResizeOps

\* The displacements one event of a mouse move can propose, those it can
\* propose with snapping on, the key presses of a keyboard move, and the
\* changes of size one event of a resize can propose.
move_deltas == {<<-8, 0>>, <<-4, 0>>, <<4, 0>>, <<8, 0>>, <<0, -1>>, <<0, 1>>}

snap_deltas == {<<-3, 0>>, <<3, 0>>}

key_presses == {<<1, 0>>, <<-1, 0>>, <<0, 1>>}

resize_deltas == {<<-2, 0>>, <<2, 0>>, <<0, 1>>, <<0, -1>>}

\* The proposed rectangle stays on the screen, except that it may reach
\* MaxOffscreen above it.
in_universe(r) ==
  /\ r.x >= screen_rect.x
  /\ r.y >= screen_rect.y - MaxOffscreen
  /\ BOX_RIGHT(r) <= BOX_RIGHT(screen_rect)
  /\ BOX_BOTTOM(r) <= BOX_BOTTOM(screen_rect)
  /\ r.width >= 1
  /\ r.height >= 1

(***************************************************************************)
(* meta_display_compute_resistance_and_snapping_edges, cache_edges and     *)
(* initialize_grab_edge_resistance_data                                    *)
(***************************************************************************)
WINDOW_EDGES_RELEVANTMutant(window, the_grab_window) ==
  /\ window.showing
  /\ window.screen = "screen0"
  /\ window.id # the_grab_window
  /\ window.type # "DESKTOP"
  /\ window.type # "SPLASHSCREEN"

WINDOW_EDGES_RELEVANT(window, the_grab_window) ==
  /\ window.showing
  /\ window.screen = "screen0"
  /\ window.id # the_grab_window
  /\ window.type # "DESKTOP"
  /\ window.type # "MENU"
  /\ window.type # "SPLASHSCREEN"

meta_rectangle_intersect(a, b) ==
  LET x == IF a.x > b.x THEN a.x ELSE b.x
      y == IF a.y > b.y THEN a.y ELSE b.y
      r == IF BOX_RIGHT(a) < BOX_RIGHT(b) THEN BOX_RIGHT(a) ELSE BOX_RIGHT(b)
      t == IF BOX_BOTTOM(a) < BOX_BOTTOM(b) THEN BOX_BOTTOM(a) ELSE BOX_BOTTOM(b)
  IN  IF r > x /\ t > y THEN meta_rect(x, y, r - x, t - y) ELSE meta_rect(0, 0, 0, 0)

\* The four edges of one window, in the order of the list the code builds by
\* prepending.
edges_of_window(reduced) ==
  << MetaEdge([reduced EXCEPT !.y = reduced.y + reduced.height, !.height = 0],
              "TOP", "WINDOW"),
     MetaEdge([reduced EXCEPT !.height = 0], "BOTTOM", "WINDOW"),
     MetaEdge([reduced EXCEPT !.x = reduced.x + reduced.width, !.width = 0],
              "LEFT", "WINDOW"),
     MetaEdge([reduced EXCEPT !.width = 0], "RIGHT", "WINDOW") >>

\* What is left of one edge once the part a rectangle covers is taken out.
edge_minus_box(edge, box) ==
  LET vertical == edge.rect.width = 0 /\ edge.side_type \in {"LEFT", "RIGHT"}
      pos == IF vertical THEN edge.rect.x ELSE edge.rect.y
      lo == IF vertical THEN edge.rect.y ELSE edge.rect.x
      hi == IF vertical THEN BOX_BOTTOM(edge.rect) ELSE BOX_RIGHT(edge.rect)
      blo == IF vertical THEN box.y ELSE box.x
      bhi == IF vertical THEN BOX_BOTTOM(box) ELSE BOX_RIGHT(box)
      crossed == IF vertical
                 THEN box.x < pos /\ pos < BOX_RIGHT(box)
                 ELSE box.y < pos /\ pos < BOX_BOTTOM(box)
      piece(a, b) == IF vertical
                     THEN [edge EXCEPT !.rect.y = a, !.rect.height = b - a]
                     ELSE [edge EXCEPT !.rect.x = a, !.rect.width = b - a]
  IN  IF ~crossed \/ bhi <= lo \/ hi <= blo
      THEN <<edge>>
      ELSE (IF lo < blo THEN <<piece(lo, blo)>> ELSE <<>>)
           \o (IF bhi < hi THEN <<piece(bhi, hi)>> ELSE <<>>)

RECURSIVE edges_minus_box(_, _)
edges_minus_box(edges, box) ==
  IF edges = <<>>
  THEN <<>>
  ELSE edge_minus_box(Head(edges), box) \o edges_minus_box(Tail(edges), box)

RECURSIVE meta_rectangle_remove_intersections_with_boxes_from_edges(_, _)
meta_rectangle_remove_intersections_with_boxes_from_edges(edges, rectangles) ==
  IF rectangles = <<>>
  THEN edges
  ELSE meta_rectangle_remove_intersections_with_boxes_from_edges(
         edges_minus_box(edges, Head(rectangles)), Tail(rectangles))

\* The second loop of meta_display_compute_resistance_and_snapping_edges, from
\* list position k on: obscuring_windows and window_stacking once reversed,
\* one record for each relevant window, bottom to top.
RECURSIVE obscuring_windows(_, _, _)
obscuring_windows(stacked_windows, the_grab_window, k) ==
  IF k > Len(stacked_windows)
  THEN <<>>
  ELSE (IF WINDOW_EDGES_RELEVANT(stacked_windows[k], the_grab_window)
        THEN <<[rect |-> stacked_windows[k].rect, stack_position |-> k - 1]>>
        ELSE <<>>)
       \o obscuring_windows(stacked_windows, the_grab_window, k + 1)

\* "Update the remaining windows to only those at a higher stacking position
\* than this one": the while loop that advances rem_windows and
\* rem_win_stacking.
RECURSIVE remaining_windowsMutant(_, _)
remaining_windowsMutant(rem, stack_position) ==
  IF rem # <<>> /\ stack_position > Head(rem).stack_position
  THEN remaining_windowsMutant(Tail(rem), stack_position)
  ELSE rem

RECURSIVE remaining_windows(_, _)
remaining_windows(rem, stack_position) ==
  IF rem # <<>> /\ stack_position >= Head(rem).stack_position
  THEN remaining_windows(Tail(rem), stack_position)
  ELSE rem

\* The rectangles of rem_windows.
rem_rectangles(rem) == [i \in DOMAIN rem |-> rem[i].rect]

\* The third loop, from list position k on with rem_windows as the loop has
\* left it: for each window whose edges are used, its stack position, the
\* rectangles taken out of its edges and the edges that are left.
RECURSIVE third_loop(_, _, _, _)
third_loop(stacked_windows, the_grab_window, k, rem) ==
  IF k > Len(stacked_windows)
  THEN <<>>
  ELSE
    LET cur_window == stacked_windows[k]
        used == /\ WINDOW_EDGES_RELEVANT(cur_window, the_grab_window)
                /\ cur_window.type # "DOCK"
        rem1 == IF used THEN remaining_windows(rem, k - 1) ELSE rem
    IN  (IF used
         THEN <<[stack_position |-> k - 1,
                 rem_windows |-> rem_rectangles(rem1),
                 new_edges |->
                   meta_rectangle_remove_intersections_with_boxes_from_edges(
                     edges_of_window(meta_rectangle_intersect(cur_window.rect,
                                                              screen_rect)),
                     rem_rectangles(rem1))]>>
         ELSE <<>>)
        \o third_loop(stacked_windows, the_grab_window, k + 1, rem1)

\* "edges = g_list_concat (new_edges, edges)", window after window.
RECURSIVE concat_edges(_)
concat_edges(per_window) ==
  IF per_window = <<>>
  THEN <<>>
  ELSE concat_edges(Tail(per_window)) \o Head(per_window).new_edges

\* meta_rectangle_edge_cmp (a, b) < 0
edge_type_rank(edge_type) ==
  CASE edge_type = "WINDOW" -> 0
    [] edge_type = "XINERAMA" -> 1
    [] edge_type = "SCREEN" -> 2

meta_rectangle_edge_cmp_less(a, b) ==
  LET vertical == a.side_type \in {"LEFT", "RIGHT"}
      a_pos == IF vertical THEN a.rect.x ELSE a.rect.y
      b_pos == IF vertical THEN b.rect.x ELSE b.rect.y
      a_lo == IF vertical THEN a.rect.y ELSE a.rect.x
      b_lo == IF vertical THEN b.rect.y ELSE b.rect.x
  IN  \/ a_pos < b_pos
      \/ a_pos = b_pos /\ edge_type_rank(a.edge_type) < edge_type_rank(b.edge_type)
      \/ /\ a_pos = b_pos
         /\ edge_type_rank(a.edge_type) = edge_type_rank(b.edge_type)
         /\ a_lo < b_lo

RECURSIVE sorted_insert(_, _)
sorted_insert(sorted, edge) ==
  IF sorted = <<>>
  THEN <<edge>>
  ELSE IF meta_rectangle_edge_cmp_less(edge, Head(sorted))
       THEN <<edge>> \o sorted
       ELSE <<Head(sorted)>> \o sorted_insert(Tail(sorted), edge)

RECURSIVE g_array_sort(_)
g_array_sort(edges) ==
  IF edges = <<>>
  THEN <<>>
  ELSE sorted_insert(g_array_sort(Tail(edges)), Head(edges))

RECURSIVE edges_with_side(_, _)
edges_with_side(edges, side) ==
  IF edges = <<>>
  THEN <<>>
  ELSE (IF Head(edges).side_type = side THEN <<Head(edges)>> ELSE <<>>)
       \o edges_with_side(Tail(edges), side)

\* The four arrays cache_edges fills and sorts.
cache_edgesMutant(window_edges, the_xinerama_edges, the_screen_edges) ==
  LET all == window_edges \o the_xinerama_edges \o the_screen_edges
  IN  [left_edges |-> g_array_sort(edges_with_side(all, "LEFT")),
       right_edges |-> edges_with_side(all, "RIGHT"),
       top_edges |-> g_array_sort(edges_with_side(all, "TOP")),
       bottom_edges |-> g_array_sort(edges_with_side(all, "BOTTOM"))]

cache_edges(window_edges, the_xinerama_edges, the_screen_edges) ==
  LET all == window_edges \o the_xinerama_edges \o the_screen_edges
  IN  [left_edges |-> g_array_sort(edges_with_side(all, "LEFT")),
       right_edges |-> g_array_sort(edges_with_side(all, "RIGHT")),
       top_edges |-> g_array_sort(edges_with_side(all, "TOP")),
       bottom_edges |-> g_array_sort(edges_with_side(all, "BOTTOM"))]

\* One side's record as initialize_grab_edge_resistance_data leaves it: the
\* block comes from g_new, and the function writes three of the fields.
initial_resistance_data(allow_past_screen_edge) ==
  [timeout_setup |-> FALSE,
   timeout_id |-> Indeterminate,
   timeout_edge_pos |-> Indeterminate,
   timeout_over |-> Indeterminate,
   timeout_func |-> Indeterminate,
   window |-> Indeterminate,
   keyboard_buildup |-> 0,
   allow_past_screen_edge |-> allow_past_screen_edge]

\* As if the top side were let past the screen edge in every grab.
initialize_grab_edge_resistance_dataMutant(arrays, grab_anchor_root_y, grab_initial_window_pos) ==
  [left_edges |-> arrays.left_edges,
   right_edges |-> arrays.right_edges,
   top_edges |-> arrays.top_edges,
   bottom_edges |-> arrays.bottom_edges,
   left_data |-> initial_resistance_data(TRUE),
   right_data |-> initial_resistance_data(TRUE),
   top_data |-> initial_resistance_data(TRUE),
   bottom_data |-> initial_resistance_data(TRUE)]

initialize_grab_edge_resistance_data(arrays, grab_anchor_root_y, grab_initial_window_pos) ==
  [left_edges |-> arrays.left_edges,
   right_edges |-> arrays.right_edges,
   top_edges |-> arrays.top_edges,
   bottom_edges |-> arrays.bottom_edges,
   left_data |-> initial_resistance_data(TRUE),
   right_data |-> initial_resistance_data(TRUE),
   top_data |-> initial_resistance_data(grab_anchor_root_y >= grab_initial_window_pos.y),
   bottom_data |-> initial_resistance_data(TRUE)]

NoCall == [fn |-> "none"]

\* The sources still pending keep their log entries when a grab begins; a
\* grab that begins with none pending starts a new log.
\* A failed g_assert aborts the program: nothing is written, and no operation
\* runs after it.
g_assert_failed(function) ==
  /\ last' = [fn |-> "abort", function |-> function]
  /\ UNCHANGED <<grab_edge_resistance_data, grab_window, grab_op, outer_rect,
                 sources, timeout_log, use_after_free, search>>

\* A read through display->grab_edge_resistance_data when it is NULL, which
\* ends the program with a fault.
null_dereference(function) ==
  /\ last' = [fn |-> "crash", function |-> function]
  /\ UNCHANGED <<grab_edge_resistance_data, grab_window, grab_op, outer_rect,
                 sources, timeout_log, use_after_free, search>>

\* The program has ended on a failed assertion or on a fault.
halted == last.fn \in {"abort", "crash"}

\* g_assert (display->grab_edge_resistance_data == NULL) in cache_edges.
cache_edges_assertMutant(edge_data) == TRUE

cache_edges_assert(edge_data) == edge_data = NULL

\* g_assert (display->grab_edge_resistance_data != NULL) in
\* apply_edge_resistance_to_each_side.
each_side_assertMutant(edge_data) == TRUE

each_side_assert(edge_data) == edge_data # NULL

\* g_assert (edge_data != NULL) in meta_display_cleanup_edges.
cleanup_assert(edge_data) == edge_data # NULL

\* meta_stack_list_windows: the windows of the workspace, bottom to top, the
\* grabbed window on top of the others.
meta_stack_list_windows(others, window, rect) ==
  others \o << [id |-> window, rect |-> rect, type |-> "NORMAL",
                showing |-> TRUE, screen |-> "screen0"] >>

\* The list of Window-class edges handed to cache_edges, which sorts what it
\* is given once more, side by side.
edges_per_window(stacked_windows, window) ==
  third_loop(stacked_windows, window, 1,
             obscuring_windows(stacked_windows, window, 1))

window_edges(stacked_windows, window) ==
  concat_edges(edges_per_window(stacked_windows, window))

meta_display_compute_resistance_and_snapping_edges(others, workspace, window, op, rect, grab_anchor_root_y) ==
  IF ~cache_edges_assert(grab_edge_resistance_data)
  THEN g_assert_failed("cache_edges")
  ELSE
  /\ grab_edge_resistance_data' =
       initialize_grab_edge_resistance_data(
         cache_edges(window_edges(meta_stack_list_windows(others, window, rect), window),
                     workspace.xinerama_edges, workspace.screen_edges),
         grab_anchor_root_y, rect)
  /\ grab_window' = window
  /\ grab_op' = op
  /\ outer_rect' = rect
  /\ timeout_log' = IF sources = {} THEN <<>> ELSE timeout_log
  /\ last' = [fn |-> "compute",
               grab_anchor_root_y |-> grab_anchor_root_y,
               stacked_windows |-> meta_stack_list_windows(others, window, rect),
               per_window |->
                 edges_per_window(meta_stack_list_windows(others, window, rect),
                                  window)]
  /\ UNCHANGED <<sources, use_after_free, search>>

(***************************************************************************)
(* apply_edge_resistance_to_each_side                                      *)
(***************************************************************************)
\* The position of a side among the four calls; g_timeout_add hands a source
\* added for that side the id first_id + side_index.
side_index(side) ==
  CASE side = "LEFT" -> 0
    [] side = "RIGHT" -> 1
    [] side = "TOP" -> 2
    [] side = "BOTTOM" -> 3

\* What the function leaves behind once the four sides have their results:
\* new_outer, whether it was modified, the records, and the sources removed
\* and added.
snapped_sides(edge_data, new_outer, new_left, new_right, new_top, new_bottom) ==
  LET modified_rect == meta_rect(new_left, new_top, new_right - new_left,
                                 new_bottom - new_top)
  IN  [modified |-> ~meta_rectangle_equal(new_outer, modified_rect),
       new_outer |-> modified_rect,
       edge_data |-> edge_data,
       removed |-> {},
       added |-> {}]

resisted_sides(edge_data, new_outer, first_id, l, r, t, b) ==
  LET modified_rect == meta_rect(l.pos, t.pos, r.pos - l.pos, b.pos - t.pos)
  IN  [modified |-> ~meta_rectangle_equal(new_outer, modified_rect),
       new_outer |-> modified_rect,
       edge_data |-> [edge_data EXCEPT !.left_data = l.data,
                                       !.right_data = r.data,
                                       !.top_data = t.data,
                                       !.bottom_data = b.data],
       removed |-> l.removed \cup r.removed \cup t.removed \cup b.removed,
       added |-> (IF l.added THEN {[id |-> first_id, data |-> "LEFT"]} ELSE {})
                 \cup (IF r.added THEN {[id |-> first_id + 1, data |-> "RIGHT"]} ELSE {})
                 \cup (IF t.added THEN {[id |-> first_id + 2, data |-> "TOP"]} ELSE {})
                 \cup (IF b.added THEN {[id |-> first_id + 3, data |-> "BOTTOM"]} ELSE {})]

\* first_id is the id the next g_timeout_add returns.
apply_edge_resistance_to_each_side(edge_data, window, old_outer, new_outer, timeout_func, auto_snap, keyboard_op, first_id) ==
  IF auto_snap
  THEN
    snapped_sides(edge_data, new_outer,
      apply_edge_snapping(BOX_LEFT(old_outer), BOX_LEFT(new_outer), new_outer,
        edge_data.left_edges, edge_data.right_edges, TRUE, keyboard_op),
      apply_edge_snapping(BOX_RIGHT(old_outer), BOX_RIGHT(new_outer), new_outer,
        edge_data.left_edges, edge_data.right_edges, TRUE, keyboard_op),
      apply_edge_snapping(BOX_TOP(old_outer), BOX_TOP(new_outer), new_outer,
        edge_data.top_edges, edge_data.bottom_edges, FALSE, keyboard_op),
      apply_edge_snapping(BOX_BOTTOM(old_outer), BOX_BOTTOM(new_outer), new_outer,
        edge_data.top_edges, edge_data.bottom_edges, FALSE, keyboard_op))
  ELSE
    resisted_sides(edge_data, new_outer, first_id,
      apply_edge_resistance(window, BOX_LEFT(old_outer), BOX_LEFT(new_outer),
        new_outer, edge_data.left_edges, edge_data.left_data,
        timeout_func, TRUE, keyboard_op, first_id + side_index("LEFT")),
      apply_edge_resistance(window, BOX_RIGHT(old_outer), BOX_RIGHT(new_outer),
        new_outer, edge_data.right_edges, edge_data.right_data,
        timeout_func, TRUE, keyboard_op, first_id + side_index("RIGHT")),
      apply_edge_resistance(window, BOX_TOP(old_outer), BOX_TOP(new_outer),
        new_outer, edge_data.top_edges, edge_data.top_data,
        timeout_func, FALSE, keyboard_op, first_id + side_index("TOP")),
      apply_edge_resistance(window, BOX_BOTTOM(old_outer), BOX_BOTTOM(new_outer),
        new_outer, edge_data.bottom_edges, edge_data.bottom_data,
        timeout_func, FALSE, keyboard_op, first_id + side_index("BOTTOM")))

(***************************************************************************)
(* meta_window_edge_resistance_for_move                                    *)
(***************************************************************************)
\* The choice of smaller_x_change (and smaller_y_change) between the change
\* of the left (top) and of the right (bottom) side.
smaller_changeMutant(snap, is_keyboard_op, first_change, second_change) ==
  IF ABS(first_change) > ABS(second_change) THEN first_change ELSE second_change

smaller_changeAlwaysMutant(snap, is_keyboard_op, first_change, second_change) ==
  IF ABS(first_change) < ABS(second_change) THEN first_change ELSE second_change

smaller_change(snap, is_keyboard_op, first_change, second_change) ==
  IF snap /\ is_keyboard_op /\ first_change = 0
  THEN second_change
  ELSE IF snap /\ is_keyboard_op /\ second_change = 0
  THEN first_change
  ELSE IF ABS(first_change) < ABS(second_change)
  THEN first_change
  ELSE second_change

\* The code after the call of apply_edge_resistance_to_each_side, whose
\* outcome is each: *new_x and *new_y as the function leaves them.
reconcile_move(old_outer, proposed_outer, old_x, old_y, new_x, new_y, snap, is_keyboard_op, each) ==
  LET new_outer == each.new_outer
      reference == IF snap /\ ~is_keyboard_op THEN proposed_outer ELSE old_outer
      left_change == BOX_LEFT(new_outer) - BOX_LEFT(reference)
      right_change == BOX_RIGHT(new_outer) - BOX_RIGHT(reference)
      smaller_x_change == smaller_change(snap, is_keyboard_op, left_change, right_change)
      top_change == BOX_TOP(new_outer) - BOX_TOP(reference)
      bottom_change == BOX_BOTTOM(new_outer) - BOX_BOTTOM(reference)
      smaller_y_change == smaller_change(snap, is_keyboard_op, top_change, bottom_change)
  IN  [new_x |-> IF each.modified
                 THEN old_x + smaller_x_change
                      + (BOX_LEFT(reference) - BOX_LEFT(old_outer))
                 ELSE new_x,
       new_y |-> IF each.modified
                 THEN old_y + smaller_y_change
                      + (BOX_TOP(reference) - BOX_TOP(old_outer))
                 ELSE new_y,
       each |-> each]

proposed_move(old_outer, old_x, old_y, new_x, new_y) ==
  [old_outer EXCEPT !.x = @ + (new_x - old_x), !.y = @ + (new_y - old_y)]

meta_window_edge_resistance_for_move(edge_data, window, old_outer, old_x, old_y, new_x, new_y, timeout_func, snap, is_keyboard_op, first_id) ==
  reconcile_move(old_outer, proposed_move(old_outer, old_x, old_y, new_x, new_y),
    old_x, old_y, new_x, new_y, snap, is_keyboard_op,
    apply_edge_resistance_to_each_side(edge_data, window, old_outer,
      proposed_move(old_outer, old_x, old_y, new_x, new_y),
      timeout_func, snap, is_keyboard_op, first_id))

(***************************************************************************)
(* meta_window_edge_resistance_for_resize                                  *)
(***************************************************************************)
meta_rectangle_resize_with_gravity(old_rect, gravity, new_width, new_height) ==
  CASE gravity = "NorthWestGravity" ->
         meta_rect(old_rect.x, old_rect.y, new_width, new_height)
    [] gravity = "SouthEastGravity" ->
         meta_rect(BOX_RIGHT(old_rect) - new_width,
                   BOX_BOTTOM(old_rect) - new_height, new_width, new_height)

\* The code after the call of apply_edge_resistance_to_each_side, whose
\* outcome is each: *new_width and *new_height as the function leaves them.
resizedMutant(old_outer, proposed_outer, old_width, old_height, new_width, new_height, each) ==
  [new_width |-> new_width, new_height |-> new_height,
   proposed |-> proposed_outer, each |-> each]

resized(old_outer, proposed_outer, old_width, old_height, new_width, new_height, each) ==
  [new_width |-> IF each.modified
                 THEN old_width + (each.new_outer.width - old_outer.width)
                 ELSE new_width,
   new_height |-> IF each.modified
                  THEN old_height + (each.new_outer.height - old_outer.height)
                  ELSE new_height,
   proposed |-> proposed_outer,
   each |-> each]

proposed_resize(old_outer, old_width, old_height, new_width, new_height, gravity) ==
  meta_rectangle_resize_with_gravity(old_outer, gravity,
    old_outer.width + (new_width - old_width),
    old_outer.height + (new_height - old_height))

meta_window_edge_resistance_for_resize(edge_data, window, old_outer, old_width, old_height, new_width, new_height, gravity, timeout_func, snap, is_keyboard_op, first_id) ==
  resized(old_outer,
    proposed_resize(old_outer, old_width, old_height, new_width, new_height, gravity),
    old_width, old_height, new_width, new_height,
    apply_edge_resistance_to_each_side(edge_data, window, old_outer,
      proposed_resize(old_outer, old_width, old_height, new_width, new_height, gravity),
      timeout_func, snap, is_keyboard_op, first_id))

(***************************************************************************)
(* The main loop's sources and the log of what became of them              *)
(***************************************************************************)
\* The id g_timeout_add returns next: ids grow, and none is handed out twice
\* while the log lasts.
next_source_id ==
  IF DOMAIN timeout_log = {}
  THEN 1
  ELSE 1 + CHOOSE id \in DOMAIN timeout_log : \A other \in DOMAIN timeout_log : other <= id

log_added(log, added, window) ==
  [id \in DOMAIN log \cup {a.id : a \in added} |->
     IF id \in DOMAIN log
     THEN log[id]
     ELSE [window |-> window,
           data |-> (CHOOSE a \in added : a.id = id).data,
           removed |-> FALSE, calls |-> <<>>]]

log_removed(log, removed) ==
  [id \in DOMAIN log |->
     IF id \in removed THEN [log[id] EXCEPT !.removed = TRUE] ELSE log[id]]

\* g_source_remove of the ids in removed, then the sources added.
sources_after(srcs, removed, added) ==
  {s \in srcs : s.id \notin removed}
  \cup {[id |-> a.id, data |-> a.data, dangling |-> FALSE] : a \in added}

(***************************************************************************)
(* Actions                                                                 *)
(***************************************************************************)
ComputeEdges ==
  /\ ~halted
  /\ \E window \in Windows, op \in GrabOps, rect \in initial_rects :
       \E grab_anchor_root_y \in {rect.y - 1, rect.y} :
         meta_display_compute_resistance_and_snapping_edges(
           other_windows, active_workspace, window, op, rect, grab_anchor_root_y)

\* The rectangle of the window once it has the position the call hands back
\* in *new_x and *new_y: the call hands back no size.
moved_outerMutant(old_outer, call) == call.each.new_outer

\* As if the call counted the attempts in a place of its own: a proposal
\* made a second time is handed back as it came.
moved_outerRepeatMutant(old_outer, call) ==
  IF last.fn = "move" /\ last.old_outer = old_outer /\ ~last.changed
  THEN [old_outer EXCEPT !.x = last.proposed.x, !.y = last.proposed.y]
  ELSE [old_outer EXCEPT !.x = call.new_x, !.y = call.new_y]

moved_outer(old_outer, call) ==
  [old_outer EXCEPT !.x = call.new_x, !.y = call.new_y]

\* The four calls of apply_edge_resistance wrote to a side's record: they
\* added a timeout, or left timeout_setup or keyboard_buildup with another
\* value (the other fields are written only when a timeout is added).
resistance_data_changed(edge_data, each) ==
  \/ each.added # {}
  \/ \E side \in Sides :
       \/ side_data(each.edge_data, side).timeout_setup
            # side_data(edge_data, side).timeout_setup
       \/ side_data(each.edge_data, side).keyboard_buildup
            # side_data(edge_data, side).keyboard_buildup

\* The call comes with the arguments of the call before it, which left the
\* edge data as it found them.
repeats_last_call(snap, old_outer, proposed) ==
  /\ last.fn = "move"
  /\ ~last.changed
  /\ last.snap = snap
  /\ last.old_outer = old_outer
  /\ last.proposed = proposed

\* One call of meta_window_edge_resistance_for_move on the grabbed window,
\* which then moves to the position the call hands back.
resist_move_as(snap, is_keyboard_op, d) ==
  \E call \in {meta_window_edge_resistance_for_move(
                 grab_edge_resistance_data, grab_window, outer_rect,
                 outer_rect.x, outer_rect.y,
                 outer_rect.x + d[1], outer_rect.y + d[2],
                 "onRelease", snap, is_keyboard_op, next_source_id)} :
    LET proposed == [outer_rect EXCEPT !.x = @ + d[1], !.y = @ + d[2]]
    IN  /\ Cardinality(DOMAIN timeout_log) + Cardinality(call.each.added) <= MaxTimeouts
        /\ grab_edge_resistance_data' = call.each.edge_data
        /\ outer_rect' = moved_outer(outer_rect, call)
        /\ sources' = sources_after(sources, call.each.removed, call.each.added)
        /\ timeout_log' = log_added(log_removed(timeout_log, call.each.removed),
                                    call.each.added, grab_window)
        /\ last' = [fn |-> "move", snap |-> snap,
                    is_keyboard_op |-> is_keyboard_op,
                    old_outer |-> outer_rect, proposed |-> proposed,
                    new_outer |-> call.each.new_outer,
                    removed |-> call.each.removed,
                    added |-> call.each.added,
                    changed |-> resistance_data_changed(grab_edge_resistance_data,
                                                        call.each),
                    repeats |-> repeats_last_call(snap, outer_rect, proposed)]
        /\ UNCHANGED <<grab_window, grab_op, use_after_free, search>>

\* The call as the grab in progress makes it: is_keyboard_op is what the grab
\* was begun with.
resist_move_to(snap, d) == resist_move_as(snap, grab_op.keyboard, d)

\* The same, for a proposal that stays on the screen.
resist_move(snap, d) ==
  /\ in_universe([outer_rect EXCEPT !.x = @ + d[1], !.y = @ + d[2]])
  /\ resist_move_to(snap, d)

ResistMove ==
  /\ ~halted
  /\ ~grab_op.resize
  /\ IF ~each_side_assert(grab_edge_resistance_data)
     THEN g_assert_failed("meta_window_edge_resistance_for_move")
     ELSE IF grab_edge_resistance_data = NULL
     THEN null_dereference("meta_window_edge_resistance_for_move")
     ELSE \/ \E d \in move_deltas : resist_move(FALSE, d)
          \/ \E d \in snap_deltas : resist_move(TRUE, d)

\* One call of meta_window_edge_resistance_for_resize on the grabbed window,
\* which then takes the size the call hands back.
resist_resize(snap, d) ==
  \E call \in {meta_window_edge_resistance_for_resize(
                 grab_edge_resistance_data, grab_window, outer_rect,
                 outer_rect.width, outer_rect.height,
                 outer_rect.width + d[1], outer_rect.height + d[2],
                 grab_op.gravity, "onRelease", snap, grab_op.keyboard,
                 next_source_id)} :
    /\ in_universe(call.proposed)
    /\ call.new_width >= 1
    /\ call.new_height >= 1
    /\ Cardinality(DOMAIN timeout_log) + Cardinality(call.each.added) <= MaxTimeouts
    /\ grab_edge_resistance_data' = call.each.edge_data
    /\ outer_rect' = meta_rectangle_resize_with_gravity(outer_rect,
                       grab_op.gravity, call.new_width, call.new_height)
    /\ sources' = sources_after(sources, call.each.removed, call.each.added)
    /\ timeout_log' = log_added(log_removed(timeout_log, call.each.removed),
                                call.each.added, grab_window)
    /\ last' = [fn |-> "resize", snap |-> snap,
                old_outer |-> outer_rect, proposed |-> call.proposed,
                new_outer |-> call.each.new_outer,
                new_width |-> call.new_width, new_height |-> call.new_height,
                removed |-> call.each.removed,
                added |-> call.each.added]
    /\ UNCHANGED <<grab_window, grab_op, use_after_free, search>>

ResistResize ==
  /\ ~halted
  /\ grab_edge_resistance_data = NULL \/ grab_op.resize
  /\ IF ~each_side_assert(grab_edge_resistance_data)
     THEN g_assert_failed("meta_window_edge_resistance_for_resize")
     ELSE IF grab_edge_resistance_data = NULL
     THEN null_dereference("meta_window_edge_resistance_for_resize")
     ELSE \E snap \in BOOLEAN, d \in resize_deltas : resist_resize(snap, d)

\* What g_main does with a source whose callback returned FALSE.
source_kept_after_dispatchMutant(s) == {s}

source_kept_after_dispatch(s) == {}

\* The two assignments of edge_resistance_timeout.
timeout_firedMutant(resistance_data) ==
  [resistance_data EXCEPT !.timeout_id = 0]

\* As if the callback gave up the side's keyboard buildup too.
timeout_firedBuildupMutant(resistance_data) ==
  [resistance_data EXCEPT !.timeout_over = TRUE, !.timeout_id = 0,
                          !.keyboard_buildup = 0]

timeout_fired(resistance_data) ==
  [resistance_data EXCEPT !.timeout_over = TRUE, !.timeout_id = 0]

\* edge_resistance_timeout, run by the main loop for a pending source: the
\* callback gets the address of the side's record.
edge_resistance_timeout(s) ==
  IF s.dangling \/ grab_edge_resistance_data = NULL
  THEN /\ use_after_free' = TRUE
       /\ sources' = sources \ {s}
       /\ last' = [fn |-> "timeout", id |-> s.id, data |-> s.data]
       /\ UNCHANGED <<grab_edge_resistance_data, timeout_log>>
  ELSE
    LET resistance_data == side_data(grab_edge_resistance_data, s.data)
        fired == timeout_fired(resistance_data)
    IN  /\ grab_edge_resistance_data' =
             CASE s.data = "LEFT" ->
                    [grab_edge_resistance_data EXCEPT !.left_data = fired]
               [] s.data = "RIGHT" ->
                    [grab_edge_resistance_data EXCEPT !.right_data = fired]
               [] s.data = "TOP" ->
                    [grab_edge_resistance_data EXCEPT !.top_data = fired]
               [] s.data = "BOTTOM" ->
                    [grab_edge_resistance_data EXCEPT !.bottom_data = fired]
        /\ timeout_log' =
             [timeout_log EXCEPT ![s.id].calls = Append(@, resistance_data.window)]
        /\ sources' = (sources \ {s}) \cup source_kept_after_dispatch(s)
        /\ last' = [fn |-> "timeout", id |-> s.id, data |-> s.data]
        /\ UNCHANGED use_after_free

Timeout ==
  /\ ~halted
  /\ \E s \in sources :
       /\ s.id \in DOMAIN timeout_log
       /\ Len(timeout_log[s.id].calls) < 2
       /\ edge_resistance_timeout(s)
  /\ UNCHANGED <<grab_window, grab_op, outer_rect, search>>

\* The sources meta_display_cleanup_edges hands to g_source_remove.
cleanup_removedMutant(edge_data) ==
  IF edge_data.left_data.timeout_setup /\ edge_data.left_data.timeout_id # 0
  THEN {edge_data.left_data.timeout_id}
  ELSE {}

cleanup_removed(edge_data) ==
  UNION {IF side_data(edge_data, side).timeout_setup
            /\ side_data(edge_data, side).timeout_id # 0
         THEN {side_data(edge_data, side).timeout_id}
         ELSE {} : side \in Sides}

\* The inner loop of meta_display_cleanup_edges over one array, from index j
\* on: the places whose edge is handed to g_free, in the order of the calls.
RECURSIVE freed_in(_, _, _)
freed_in(tmp, i, j) ==
  IF j > Len(tmp)
  THEN <<>>
  ELSE (IF tmp[j].edge_type = "WINDOW" THEN << [array |-> i, index |-> j] >> ELSE <<>>)
       \o freed_in(tmp, i, j + 1)

\* The edges meta_display_cleanup_edges hands to g_free, each named by its
\* place in the four arrays.
cleanup_freedMutant(edge_data) ==
  freed_in(edge_data.left_edges, "LEFT", 1)
    \o freed_in(edge_data.right_edges, "RIGHT", 1)
    \o freed_in(edge_data.top_edges, "TOP", 1)

cleanup_freed(edge_data) ==
  freed_in(edge_data.left_edges, "LEFT", 1)
    \o freed_in(edge_data.right_edges, "RIGHT", 1)
    \o freed_in(edge_data.top_edges, "TOP", 1)
    \o freed_in(edge_data.bottom_edges, "BOTTOM", 1)

meta_display_cleanup_edges ==
  IF ~cleanup_assert(grab_edge_resistance_data)
  THEN g_assert_failed("meta_display_cleanup_edges")
  ELSE
  /\ LET removed == cleanup_removed(grab_edge_resistance_data)
     IN  /\ sources' = {[s EXCEPT !.dangling = TRUE] :
                          s \in sources_after(sources, removed, {})}
         /\ timeout_log' = log_removed(timeout_log, removed)
  /\ grab_edge_resistance_data' = NULL
  /\ grab_window' = "none"
  /\ grab_op' = MouseMove
  /\ outer_rect' = meta_rect(0, 0, 0, 0)
  /\ last' = [fn |-> "cleanup",
               freed |-> cleanup_freed(grab_edge_resistance_data),
               removed |-> cleanup_removed(grab_edge_resistance_data)]
  /\ UNCHANGED <<use_after_free, search>>

CleanupEdges ==
  /\ ~halted
  /\ meta_display_cleanup_edges

Init ==
  /\ grab_edge_resistance_data = NULL
  /\ grab_window = "none"
  /\ grab_op = MouseMove
  /\ outer_rect = meta_rect(0, 0, 0, 0)
  /\ sources = {}
  /\ timeout_log = <<>>
  /\ use_after_free = FALSE
  /\ last = NoCall
  /\ search = [edges |-> <<>>, call |-> NoCall]

Next ==
  \/ ComputeEdges
  \/ ResistMove
  \/ ResistResize
  \/ Timeout
  \/ CleanupEdges

Spec == Init /\ [][Next]_vars

(***************************************************************************)
(* A keyboard move, one key press at a time                                *)
(***************************************************************************)
ComputeEdgesKeyboard ==
  /\ ~halted
  /\ \E rect \in keyboard_rects :
       meta_display_compute_resistance_and_snapping_edges(
         other_windows, active_workspace, "w1", KeyboardMove, rect, rect.y)

KeyPress ==
  /\ ~halted
  /\ ~grab_op.resize
  /\ IF ~each_side_assert(grab_edge_resistance_data)
     THEN g_assert_failed("meta_window_edge_resistance_for_move")
     ELSE IF grab_edge_resistance_data = NULL
     THEN null_dereference("meta_window_edge_resistance_for_move")
     ELSE /\ grab_op.keyboard
          /\ \E d \in key_presses : resist_move(FALSE, d)

NextKeyboard ==
  \/ ComputeEdgesKeyboard
  \/ KeyPress
  \/ CleanupEdges

SpecKeyboard == Init /\ [][NextKeyboard]_vars

(***************************************************************************)
(* The two search helpers on their own: a sorted array of edges, and calls *)
(* of find_index_of_edge_near_position and find_nearest_position on it     *)
(***************************************************************************)
\* The longest array, and the largest edge position in it.
MaxLen == 5

MaxCoord == 3

\* The rectangle the searches are made for, and an edge at a position whose
\* span does or does not overlap it.
search_rect == meta_rect(0, 0, 1, 2)

search_edge(position, aligned) ==
  MetaEdge(meta_rect(position, IF aligned THEN 0 ELSE 2, 0, 2), "LEFT", "WINDOW")

\* The array of the comment in find_index_of_edge_near_position.
example_positions == <<3, 27, 316, 316, 316, 505, 522, 800, 1213>>

example_edges ==
  [i \in DOMAIN example_positions |-> search_edge(example_positions[i], TRUE)]

\* The arrays searched: sorted by position as cache_edges leaves them, at
\* most one edge not aligned with search_rect.
search_arrays ==
  {[i \in DOMAIN a |-> search_edge(a[i][1], a[i][2])] :
     a \in {a \in UNION {[1..n -> (0..MaxCoord) \X BOOLEAN] : n \in 1..MaxLen} :
              /\ \A i \in DOMAIN a : i = 1 \/ a[i - 1][1] <= a[i][1]
              /\ Cardinality({i \in DOMAIN a : ~a[i][2]}) <= 1}}
  \cup {example_edges}

\* The positions a search is made for.
search_positions(edges) ==
  IF edges = example_edges
  THEN {2, 316, 500, 805, 2000}
  ELSE -1..(MaxCoord + 1)

InitSearch ==
  /\ grab_edge_resistance_data = NULL
  /\ grab_window = "none"
  /\ grab_op = MouseMove
  /\ outer_rect = meta_rect(0, 0, 0, 0)
  /\ sources = {}
  /\ timeout_log = <<>>
  /\ use_after_free = FALSE
  /\ last = NoCall
  /\ search \in {[edges |-> edges, call |-> NoCall] : edges \in search_arrays}

\* Each array is searched once.
FindIndex ==
  /\ search.call = NoCall
  /\ \E position \in search_positions(search.edges), want_interval_min \in BOOLEAN :
       search' = [search EXCEPT !.call =
                    [fn |-> "find_index_of_edge_near_position",
                     position |-> position,
                     want_interval_min |-> want_interval_min,
                     result |-> find_index_of_edge_near_position(
                                  search.edges, position, want_interval_min, TRUE)]]
  /\ UNCHANGED grab_vars

FindNearest ==
  /\ search.call = NoCall
  /\ \E position \in search_positions(search.edges) :
       \E old_position \in search_positions(search.edges), only_forward \in BOOLEAN :
         search' = [search EXCEPT !.call =
                      [fn |-> "find_nearest_position",
                       position |-> position,
                       old_position |-> old_position,
                       only_forward |-> only_forward,
                       result |-> find_nearest_position(
                                    search.edges, position, old_position,
                                    search_rect, TRUE, only_forward)]]
  /\ UNCHANGED grab_vars

NextSearch ==
  \/ FindIndex
  \/ FindNearest

SpecSearch == InitSearch /\ [][NextSearch]_vars

(***************************************************************************)
(* The edge extraction on its own: a grab begins with any of a family of   *)
(* window stacks below the grabbed window, and ends.                       *)
(***************************************************************************)
window_types == {"NORMAL", "DESKTOP", "DOCK", "MENU", "SPLASHSCREEN"}

\* The windows that may stand at a place: any type, showing or not, on the
\* screen of the grab or on another one.
windows_at(id, rect) ==
  {[id |-> id, rect |-> rect, type |-> type, showing |-> showing, screen |-> screen] :
     type \in window_types, showing \in BOOLEAN, screen \in {"screen0", "screen1"}}

\* The windows of any type that show on the screen of the grab.
shown_at(id, rect) ==
  {w \in windows_at(id, rect) : w.showing /\ w.screen = "screen0"}

\* Two windows that overlap, the second stacked above the first; and three,
\* the one in the middle overlapping both.
window_stacks ==
  {<<lower, upper>> : lower \in windows_at("o1", meta_rect(16, 0, 4, 2)),
                      upper \in windows_at("o2", meta_rect(18, 1, 4, 2))}
  \cup {<<lower, middle, upper>> :
          lower \in shown_at("o1", meta_rect(16, 0, 4, 2)),
          middle \in windows_at("o3", meta_rect(17, 0, 4, 3)),
          upper \in shown_at("o2", meta_rect(18, 1, 4, 2))}

ComputeEdgesOfStack ==
  /\ ~halted
  /\ \E others \in window_stacks, rect \in initial_rects :
       meta_display_compute_resistance_and_snapping_edges(
         others, active_workspace, "w1", MouseMove, rect, rect.y)

NextExtract ==
  \/ ComputeEdgesOfStack
  \/ CleanupEdges

SpecExtract == Init /\ [][NextExtract]_vars

(***************************************************************************)
(* A mouse move over three monitors side by side: the grabbed window must  *)
(* stay on one monitor, and one event may propose a long way.              *)
(***************************************************************************)
\* How far right of the second monitor boundary the screen goes on, in units
\* of the pixel distance threshold towards a monitor boundary.
MaxBeyond == 1

monitors_rect ==
  meta_rect(0, 0, 12 + MaxBeyond * PIXEL_DISTANCE_THRESHOLD_TOWARDS_XINERAMA + 8, 4)

monitors_workspace ==
  [xinerama_edges |->
     << MetaEdge(meta_rect(8, 0, 0, 4), "LEFT", "XINERAMA"),
        MetaEdge(meta_rect(8, 0, 0, 4), "RIGHT", "XINERAMA"),
        MetaEdge(meta_rect(12, 0, 0, 4), "LEFT", "XINERAMA"),
        MetaEdge(meta_rect(12, 0, 0, 4), "RIGHT", "XINERAMA") >>,
   screen_edges |->
     << MetaEdge(meta_rect(0, 0, 0, 4), "LEFT", "SCREEN"),
        MetaEdge(meta_rect(BOX_RIGHT(monitors_rect), 0, 0, 4), "RIGHT", "SCREEN"),
        MetaEdge(meta_rect(0, 0, BOX_RIGHT(monitors_rect), 0), "TOP", "SCREEN"),
        MetaEdge(meta_rect(0, 4, BOX_RIGHT(monitors_rect), 0), "BOTTOM", "SCREEN") >>]

monitors_initial_rect == meta_rect(2, 1, 4, 2)

\* The displacements one event can propose: short ones, and one that takes
\* a side at the first boundary as far beyond the second as the pixel
\* distance threshold asks.
monitors_deltas ==
  {<<-2, 0>>, <<2, 0>>, <<-8, 0>>, <<8, 0>>,
   <<4 + MaxBeyond * PIXEL_DISTANCE_THRESHOLD_TOWARDS_XINERAMA, 0>>}

ComputeEdgesMonitors ==
  /\ ~halted
  /\ meta_display_compute_resistance_and_snapping_edges(
       <<>>, monitors_workspace, "w1", MouseMove, monitors_initial_rect,
       monitors_initial_rect.y)

ResistMoveMonitors ==
  /\ ~halted
  /\ IF ~each_side_assert(grab_edge_resistance_data)
     THEN g_assert_failed("meta_window_edge_resistance_for_move")
     ELSE IF grab_edge_resistance_data = NULL
     THEN null_dereference("meta_window_edge_resistance_for_move")
     ELSE \E d \in monitors_deltas :
            /\ outer_rect.x + d[1] >= BOX_LEFT(monitors_rect)
            /\ BOX_RIGHT(outer_rect) + d[1] <= BOX_RIGHT(monitors_rect)
            /\ resist_move_to(FALSE, d)

NextMonitors ==
  \/ ComputeEdgesMonitors
  \/ ResistMoveMonitors
  \/ Timeout
  \/ CleanupEdges

SpecMonitors == Init /\ [][NextMonitors]_vars

(***************************************************************************)
(* The same three monitors, with a user who never moves back to the left   *)
(* and a main loop that runs the callbacks it has pending.                 *)
(***************************************************************************)
pushing_deltas ==
  {d \in monitors_deltas : d[1] > 0} \cup {<<1, 0>>, <<0, 1>>, <<0, -1>>}

the_long_push ==
  <<4 + MaxBeyond * PIXEL_DISTANCE_THRESHOLD_TOWARDS_XINERAMA, 0>>

BeginGrabMonitors ==
  /\ grab_edge_resistance_data = NULL
  /\ ComputeEdgesMonitors

push(d) ==
  /\ ~halted
  /\ grab_edge_resistance_data # NULL
  /\ BOX_RIGHT(outer_rect) + d[1] <= BOX_RIGHT(monitors_rect)
  /\ outer_rect.y + d[2] >= monitors_rect.y
  /\ BOX_BOTTOM(outer_rect) + d[2] <= BOX_BOTTOM(monitors_rect)
  /\ resist_move_to(FALSE, d)

Push == \E d \in pushing_deltas : push(d)

LongPush == push(the_long_push)

\* The long push is possible and moves the window.
long_push_moves ==
  /\ ~halted
  /\ grab_edge_resistance_data # NULL
  /\ BOX_RIGHT(outer_rect) + the_long_push[1] <= BOX_RIGHT(monitors_rect)
  /\ LET call == meta_window_edge_resistance_for_move(
                   grab_edge_resistance_data, grab_window, outer_rect,
                   outer_rect.x, outer_rect.y,
                   outer_rect.x + the_long_push[1], outer_rect.y,
                   "onRelease", FALSE, grab_op.keyboard, next_source_id)
     IN  /\ Cardinality(DOMAIN timeout_log) + Cardinality(call.each.added)
               <= MaxTimeouts
         /\ moved_outer(outer_rect, call) # outer_rect

NextPushing ==
  \/ BeginGrabMonitors
  \/ Push
  \/ Timeout

\* The main loop runs a callback that stays pending, and the user makes
\* the long push when it keeps being one that moves the window.
SpecPushing ==
  /\ Init
  /\ [][NextPushing]_vars
  /\ WF_vars(Timeout)
  /\ (<>[]long_push_moves => []<><<LongPush>>_vars)

(***************************************************************************)
(* The searches on an array without elements.  Both functions read element *)
(* 0 before they look at the length ("mid = 0; edge = g_array_index        *)
(* (edges, MetaEdge*, mid); compare = ..."), which for an empty array is a *)
(* read outside the array: the read faults, or it yields whatever lies     *)
(* there.                                                                  *)
(***************************************************************************)
\* The coordinates, and the alignment with the rectangle, that the read
\* outside the array may yield.
garbage_compares == 0..MaxCoord

\* find_index_of_edge_near_position with edges->len = 0 once the read has
\* yielded compare: no loop runs, mid stays 0.
find_index_of_edge_near_position_empty(position, want_interval_min, compare) ==
  IF want_interval_min
  THEN IF compare < position THEN Len(<<>>) ELSE 0
  ELSE IF compare > position THEN -1 ELSE 0

\* find_nearest_position with edges->len = 0 once the reads have yielded
\* compare and the alignment: only the edge "at mid" is looked at.
find_nearest_position_empty(position, old_position, only_forward, compare, aligned) ==
  IF aligned /\ (~only_forward \/ ~points_on_same_side(position, compare, old_position))
  THEN take_if_closer([best |-> old_position, best_dist |-> INT_MAX],
                      compare, position).best
  ELSE old_position

InitEmpty ==
  /\ grab_edge_resistance_data = NULL
  /\ grab_window = "none"
  /\ grab_op = MouseMove
  /\ outer_rect = meta_rect(0, 0, 0, 0)
  /\ sources = {}
  /\ timeout_log = <<>>
  /\ use_after_free = FALSE
  /\ last = NoCall
  /\ search = [edges |-> <<>>, call |-> NoCall]

FindIndexEmpty ==
  /\ search.call = NoCall
  /\ search.edges = <<>>
  /\ \E position \in search_positions(search.edges), want_interval_min \in BOOLEAN :
       \/ search' = [search EXCEPT !.call =
                       [fn |-> "find_index_of_edge_near_position",
                        position |-> position,
                        want_interval_min |-> want_interval_min,
                        out_of_bounds |-> TRUE, fault |-> TRUE]]
       \/ \E compare \in garbage_compares :
            search' = [search EXCEPT !.call =
                         [fn |-> "find_index_of_edge_near_position",
                          position |-> position,
                          want_interval_min |-> want_interval_min,
                          out_of_bounds |-> TRUE, fault |-> FALSE,
                          compare |-> compare,
                          result |-> find_index_of_edge_near_position_empty(
                                       position, want_interval_min, compare)]]
  /\ UNCHANGED grab_vars

FindNearestEmpty ==
  /\ search.call = NoCall
  /\ search.edges = <<>>
  /\ \E position \in search_positions(search.edges) :
       \E old_position \in search_positions(search.edges), only_forward \in BOOLEAN :
         \/ search' = [search EXCEPT !.call =
                         [fn |-> "find_nearest_position",
                          position |-> position,
                          old_position |-> old_position,
                          only_forward |-> only_forward,
                          out_of_bounds |-> TRUE, fault |-> TRUE]]
         \/ \E compare \in garbage_compares, aligned \in BOOLEAN :
              search' = [search EXCEPT !.call =
                           [fn |-> "find_nearest_position",
                            position |-> position,
                            old_position |-> old_position,
                            only_forward |-> only_forward,
                            out_of_bounds |-> TRUE, fault |-> FALSE,
                            compare |-> compare, aligned |-> aligned,
                            result |-> find_nearest_position_empty(
                                         position, old_position, only_forward,
                                         compare, aligned)]]
  /\ UNCHANGED grab_vars

NextEmpty ==
  \/ FindIndexEmpty
  \/ FindNearestEmpty

SpecEmpty == InitEmpty /\ [][NextEmpty]_vars

(***************************************************************************)
(* apply_edge_resistance and apply_edge_snapping on their own: one side of *)
(* the window, a sorted array of one or two edges, and one call            *)
(***************************************************************************)
\* The distance between the two positions an edge of the array can have.
EdgeGap == 3

side_edge(position, aligned, side_type, edge_type) ==
  MetaEdge(meta_rect(position, IF aligned THEN 0 ELSE 2, 0, 2), side_type, edge_type)

\* The edges an array can hold, all of the side type of the array.
side_edge_choices(side_type) ==
  {side_edge(position, aligned, side_type, edge_type) :
     position \in {0, EdgeGap}, aligned \in BOOLEAN,
     edge_type \in {"WINDOW", "XINERAMA", "SCREEN"}}

\* The arrays: sorted by position as cache_edges leaves them.
side_arrays ==
  UNION {{<<a>> : a \in side_edge_choices(side_type)}
         \cup {pair \in side_edge_choices(side_type) \X side_edge_choices(side_type) :
                 pair[1].rect.x <= pair[2].rect.x} :
         side_type \in {"LEFT", "RIGHT"}}

\* The distances from the coordinate 0 a call is made for: both sides of
\* each threshold of the function.
side_distances == {0, 1, 7, 8, 15, 16, 23, 24, 31, 32}

side_positions == side_distances \cup {-d : d \in side_distances}

side_old_positions == {-1, 0, 1}

\* The records a side can have when a mouse call comes: no timeout set up,
\* one pending for the edge position 0, or one whose callback has run.
\* timer holds timeout_setup and timeout_over.
timer_states == {<<FALSE, FALSE>>, <<TRUE, FALSE>>, <<TRUE, TRUE>>}

mouse_resistance_data(allow_past_screen_edge, timer) ==
  [initial_resistance_data(allow_past_screen_edge)
     EXCEPT !.timeout_setup = timer[1],
            !.timeout_id = IF timer[1] THEN (IF timer[2] THEN 0 ELSE 1) ELSE Indeterminate,
            !.timeout_over = IF timer[1] THEN timer[2] ELSE Indeterminate,
            !.timeout_edge_pos = IF timer[1] THEN 0 ELSE Indeterminate]

\* The records a side can have when a keyboard call comes: the buildup of
\* earlier key presses.
keyboard_resistance_data ==
  {[initial_resistance_data(TRUE) EXCEPT !.keyboard_buildup = buildup] :
     buildup \in {0, 1, 15, 20}}

InitSide ==
  /\ grab_edge_resistance_data = NULL
  /\ grab_window = "none"
  /\ grab_op = MouseMove
  /\ outer_rect = meta_rect(0, 0, 0, 0)
  /\ sources = {}
  /\ timeout_log = <<>>
  /\ use_after_free = FALSE
  /\ last = NoCall
  /\ search \in {[edges |-> edges, call |-> NoCall] : edges \in side_arrays}

side_call(window, old_pos, new_pos, resistance_data, keyboard_op) ==
  [fn |-> "apply_edge_resistance",
   window |-> window, old_pos |-> old_pos, new_pos |-> new_pos,
   resistance_data |-> resistance_data, keyboard_op |-> keyboard_op,
   result |-> apply_edge_resistance(window, old_pos, new_pos, search_rect,
                                    search.edges, resistance_data, "onRelease",
                                    TRUE, keyboard_op, 2)]

\* One call of apply_edge_resistance for a mouse op.
ApplyResistanceMouse ==
  /\ search.call = NoCall
  /\ \E window \in Windows, allow_past_screen_edge \in BOOLEAN, timer \in timer_states :
       \E old_pos \in side_old_positions, new_pos \in side_positions :
         search' = [search EXCEPT !.call =
                      side_call(window, old_pos, new_pos,
                                mouse_resistance_data(allow_past_screen_edge, timer),
                                FALSE)]
  /\ UNCHANGED grab_vars

\* One call of apply_edge_resistance for a keyboard op.
ApplyResistanceKeyboard ==
  /\ search.call = NoCall
  /\ \E resistance_data \in keyboard_resistance_data :
       \E old_pos \in side_old_positions, new_pos \in side_positions :
         search' = [search EXCEPT !.call =
                      side_call("w1", old_pos, new_pos, resistance_data, TRUE)]
  /\ UNCHANGED grab_vars

\* One call of apply_edge_snapping, the array of the opposite side holding
\* one aligned edge.
ApplySnapping ==
  /\ search.call = NoCall
  /\ \E old_pos \in side_old_positions, new_pos \in side_positions :
       \E keyboard_op \in BOOLEAN, position \in {-EdgeGap, 1} :
         search' = [search EXCEPT !.call =
                      [fn |-> "apply_edge_snapping",
                       old_pos |-> old_pos, new_pos |-> new_pos,
                       keyboard_op |-> keyboard_op,
                       edges2 |-> <<side_edge(position, TRUE, "RIGHT", "WINDOW")>>,
                       result |-> apply_edge_snapping(
                                    old_pos, new_pos, search_rect, search.edges,
                                    <<side_edge(position, TRUE, "RIGHT", "WINDOW")>>,
                                    TRUE, keyboard_op)]]
  /\ UNCHANGED grab_vars

NextSide ==
  \/ ApplyResistanceMouse
  \/ ApplyResistanceKeyboard
  \/ ApplySnapping

SpecSide == InitSide /\ [][NextSide]_vars

(***************************************************************************)
(* The reconciliation of a move, applied to what the four sides can have   *)
(* been given.                                                             *)
(***************************************************************************)
\* The outer rectangle before the move, and the position of the window
\* inside its frame.
reconcile_old_outer == meta_rect(10, 10, 6, 4)

reconcile_old_x == reconcile_old_outer.x + 1

reconcile_old_y == reconcile_old_outer.y + 2

\* The displacements proposed, and how far from the proposed coordinate a
\* side can have been put.
reconcile_deltas == {<<-2, 1>>, <<3, 0>>}

reconcile_shifts == -2 .. 2

InitReconcile ==
  /\ grab_edge_resistance_data = NULL
  /\ grab_window = "none"
  /\ grab_op = MouseMove
  /\ outer_rect = meta_rect(0, 0, 0, 0)
  /\ sources = {}
  /\ timeout_log = <<>>
  /\ use_after_free = FALSE
  /\ last = NoCall
  /\ search = [edges |-> <<>>, call |-> NoCall]

\* The code of meta_window_edge_resistance_for_move after the four sides
\* were given their coordinates.
ReconcileMove ==
  /\ search.call = NoCall
  /\ \E d \in reconcile_deltas, snap \in BOOLEAN, is_keyboard_op \in BOOLEAN :
       \E l \in reconcile_shifts, r \in reconcile_shifts,
          t \in {-1, 0}, b \in {0, 1} :
         LET proposed_outer ==
               proposed_move(reconcile_old_outer, reconcile_old_x, reconcile_old_y,
                             reconcile_old_x + d[1], reconcile_old_y + d[2])
             new_outer ==
               meta_rect(proposed_outer.x + l, proposed_outer.y + t,
                         proposed_outer.width + r - l,
                         proposed_outer.height + b - t)
         IN  search' = [search EXCEPT !.call =
               [fn |-> "reconcile_move", snap |-> snap,
                is_keyboard_op |-> is_keyboard_op,
                proposed_outer |-> proposed_outer, new_outer |-> new_outer,
                result |-> reconcile_move(
                             reconcile_old_outer, proposed_outer,
                             reconcile_old_x, reconcile_old_y,
                             reconcile_old_x + d[1], reconcile_old_y + d[2],
                             snap, is_keyboard_op,
                             [modified |-> TRUE, new_outer |-> new_outer])]]
  /\ UNCHANGED grab_vars

NextReconcile == ReconcileMove

SpecReconcile == InitReconcile /\ [][NextReconcile]_vars

(***************************************************************************)
(* Grabs of every kind: mouse moves, resizes and keyboard moves            *)
(***************************************************************************)
\* The pointer drives the grabs begun with the mouse, and the keys those
\* begun from the keyboard.
MouseMotion ==
  /\ ~grab_op.keyboard
  /\ ResistMove

NextGrabs ==
  \/ ComputeEdges
  \/ ComputeEdgesKeyboard
  \/ MouseMotion
  \/ KeyPress
  \/ ResistResize
  \/ Timeout
  \/ CleanupEdges

SpecGrabs == Init /\ [][NextGrabs]_vars

(***************************************************************************)
(* A keyboard move during which the pointer moves the window too: the      *)
(* calls of one grab come with is_keyboard_op set or not                   *)
(***************************************************************************)
pointer_deltas == {<<4, 0>>, <<-4, 0>>}

across_presses == {<<1, 0>>, <<-1, 0>>}

\* A key press to the left or to the right, which may propose a position
\* where the window leaves the screen by one pixel.
KeyAcross ==
  /\ ~halted
  /\ grab_edge_resistance_data # NULL
  /\ \E d \in across_presses :
       /\ outer_rect.x + d[1] >= screen_rect.x - 1
       /\ BOX_RIGHT(outer_rect) + d[1] <= BOX_RIGHT(screen_rect) + 1
       /\ resist_move_as(FALSE, TRUE, d)

\* A call for a mouse event while the keyboard move goes on, in resistance
\* or in snap mode; the pointer is followed until a call adds a timeout.
PointerMove ==
  /\ ~halted
  /\ grab_edge_resistance_data # NULL
  /\ DOMAIN timeout_log = {}
  /\ \E snap \in BOOLEAN, d \in pointer_deltas :
       /\ in_universe([outer_rect EXCEPT !.x = @ + d[1], !.y = @ + d[2]])
       /\ resist_move_as(snap, FALSE, d)

NextMixed ==
  \/ ComputeEdgesKeyboard
  \/ KeyAcross
  \/ PointerMove
  \/ Timeout
  \/ CleanupEdges

SpecMixed == Init /\ [][NextMixed]_vars

(***************************************************************************)
(* Properties of the delayed-release timers                                *)
(***************************************************************************)
\* The coordinate of one side of a rectangle.
side_coord(rect, side) ==
  CASE side = "LEFT" -> BOX_LEFT(rect)
    [] side = "RIGHT" -> BOX_RIGHT(rect)
    [] side = "TOP" -> BOX_TOP(rect)
    [] side = "BOTTOM" -> BOX_BOTTOM(rect)

\* The sources pending for one side's record.
pending_for(side) == {s \in sources : s.data = side}

\* C1: during a grab every side has at most one timeout source pending, and
\* a pending source is the one its side's record names: timeout_setup is set
\* and timeout_id is the source's id.
C1_AtMostOneTimerPerSide ==
  grab_edge_resistance_data # NULL =>
    \A side \in Sides :
      /\ Cardinality(pending_for(side)) <= 1
      /\ \A s \in pending_for(side) :
           /\ side_data(grab_edge_resistance_data, side).timeout_setup
           /\ side_data(grab_edge_resistance_data, side).timeout_id = s.id

\* A side whose first timeout was removed or has fired has a second one
\* pending.
C1_Witness ==
  /\ grab_edge_resistance_data # NULL
  /\ \E s \in sources : \E id \in DOMAIN timeout_log :
       /\ id # s.id
       /\ timeout_log[id].data = s.data
       /\ timeout_log[id].removed \/ timeout_log[id].calls # <<>>

\* C2: once meta_display_cleanup_edges has run no timeout source of the grab
\* is left pending, so that no callback runs on the freed records: every
\* source the grab added has fired or was removed.
C2_CleanupCancelsAllTimers ==
  /\ ~use_after_free
  /\ \A s \in sources : ~s.dangling
  /\ grab_edge_resistance_data = NULL =>
       /\ sources = {}
       /\ \A id \in DOMAIN timeout_log :
            timeout_log[id].removed \/ timeout_log[id].calls # <<>>

\* The grab ended with timeouts pending on two sides, and both were removed.
C2_Witness ==
  /\ grab_edge_resistance_data = NULL
  /\ last.fn = "cleanup"
  /\ Cardinality(last.removed) >= 2
  /\ sources = {}

\* A step that is one call of meta_window_edge_resistance_for_move or of
\* meta_window_edge_resistance_for_resize: last' holds its arguments.
IsResistCall == last'.fn \in {"move", "resize"}

\* The side's timeout is set up for an edge that lies strictly outside the
\* interval between the side's old and proposed coordinate.
stale_timeout(side) ==
  LET resistance_data == side_data(grab_edge_resistance_data, side)
      old_pos == side_coord(outer_rect, side)
      new_pos == side_coord(last'.proposed, side)
  IN  /\ resistance_data.timeout_setup
      /\ \/ resistance_data.timeout_edge_pos > old_pos
            /\ resistance_data.timeout_edge_pos > new_pos
         \/ resistance_data.timeout_edge_pos < old_pos
            /\ resistance_data.timeout_edge_pos < new_pos

\* The call removed the source of the side's timeout (when it had not fired
\* yet), and the side's record is no longer set up, or is set up for a source
\* this very call added.
stale_timeout_cancelled(side) ==
  LET resistance_data == side_data(grab_edge_resistance_data, side)
      after == side_data(grab_edge_resistance_data', side)
  IN  /\ resistance_data.timeout_id # 0 =>
           /\ resistance_data.timeout_id \notin {s.id : s \in sources'}
           /\ timeout_log'[resistance_data.timeout_id].removed
      /\ after.timeout_setup =>
           after.timeout_id \in (DOMAIN timeout_log') \ (DOMAIN timeout_log)

\* C3 as stated: every call, in resistance or in snap mode, cancels the stale
\* timeout of every side.
C3_StaleTimerAlwaysCancelled ==
  [][IsResistCall =>
       \A side \in Sides : stale_timeout(side) => stale_timeout_cancelled(side)]_vars

\* C3 as amended: a call in resistance mode cancels the stale timeout of
\* every side whose proposed coordinate differs from its old one.
C3_StaleTimerCancelledInResistanceMode ==
  [][(IsResistCall /\ ~last'.snap) =>
       \A side \in Sides :
         (/\ side_coord(outer_rect, side) # side_coord(last'.proposed, side)
          /\ stale_timeout(side))
         => stale_timeout_cancelled(side)]_vars

\* A call in resistance mode has just removed the source of a stale timeout.
C3_Witness ==
  /\ last.fn \in {"move", "resize"}
  /\ ~last.snap
  /\ last.removed # {}
  /\ \A id \in last.removed : timeout_log[id].removed /\ timeout_log[id].calls = <<>>

\* C4: the callback of a timeout source runs at most once, with the window
\* that was dragged when the source was added, and never for a source that
\* was removed.
C4_TimerFiresAtMostOnce ==
  \A id \in DOMAIN timeout_log :
    /\ Len(timeout_log[id].calls) <= 1
    /\ \A k \in DOMAIN timeout_log[id].calls :
         timeout_log[id].calls[k] = timeout_log[id].window
    /\ timeout_log[id].removed => timeout_log[id].calls = <<>>
    /\ timeout_log[id].calls # <<>> => id \notin {s.id : s \in sources}

\* One source of the grab has fired, for the dragged window, and another one
\* was removed without firing.
C4_Witness ==
  \E fired \in DOMAIN timeout_log, cancelled \in DOMAIN timeout_log :
    /\ timeout_log[fired].calls = <<grab_window>>
    /\ timeout_log[cancelled].removed
    /\ timeout_log[cancelled].calls = <<>>

(***************************************************************************)
(* Properties of the resistance and snapping results                       *)
(***************************************************************************)
\* Whether the edges of a side's array run along the y axis, so that the
\* side moves in the x direction.
side_xdir(side) == side \in {"LEFT", "RIGHT"}

\* The edges of a side's array that align with a rectangle.
aligned_edges(side, rect) ==
  LET edges == side_edges(grab_edge_resistance_data, side)
  IN  {edges[i] : i \in {j \in DOMAIN edges : edges_align(edges[j], rect, side_xdir(side))}}

\* The last call was a move in resistance mode during a mouse grab.
IsMouseResistanceMove ==
  /\ grab_edge_resistance_data # NULL
  /\ last.fn = "move"
  /\ ~last.snap
  /\ ~grab_op.keyboard

\* The proposed move takes the side from a coordinate on or inside the edge
\* to one beyond it, travelling towards the edge.
crosses_edge(side, edge) ==
  LET old_pos == side_coord(last.old_outer, side)
      new_pos == side_coord(last.proposed, side)
      compare == edge_compare(edge, side_xdir(side))
  IN  /\ movement_towards_edge(edge.side_type, new_pos - old_pos)
      /\ \/ old_pos <= compare /\ compare < new_pos
         \/ new_pos < compare /\ compare <= old_pos

\* The side of the resulting rectangle is not beyond the edge in the
\* direction of travel.
held_at_edge(side, edge) ==
  LET old_pos == side_coord(last.old_outer, side)
      new_pos == side_coord(last.proposed, side)
      compare == edge_compare(edge, side_xdir(side))
  IN  IF new_pos > old_pos
      THEN side_coord(outer_rect, side) <= compare
      ELSE side_coord(outer_rect, side) >= compare

\* C5: in mouse resistance mode a side that may not go past the screen edge
\* is never placed beyond an aligned screen edge it travels towards, whatever
\* the opposite side would have allowed.
C5_ScreenEdgeIsBarrier ==
  IsMouseResistanceMove =>
    \A side \in Sides :
      ~side_data(grab_edge_resistance_data, side).allow_past_screen_edge =>
        \A edge \in aligned_edges(side, last.proposed) :
          (edge.edge_type = "SCREEN" /\ crosses_edge(side, edge))
          => held_at_edge(side, edge)

\* The top side, which may not go past the screen edge, was dragged from the
\* top of the screen to above it, and stays at the top of the screen.
C5_Witness ==
  /\ IsMouseResistanceMove
  /\ ~grab_edge_resistance_data.top_data.allow_past_screen_edge
  /\ BOX_TOP(last.old_outer) = 0
  /\ BOX_TOP(last.proposed) < 0
  /\ BOX_TOP(outer_rect) = 0

\* The last call was a move in snap mode during a mouse grab.
IsMouseSnapMove ==
  /\ grab_edge_resistance_data # NULL
  /\ last.fn = "move"
  /\ last.snap
  /\ ~grab_op.keyboard

\* The side of the resulting rectangle lies on an aligned edge that is less
\* than 8 pixels from where the side was.
snapped_nearby(side, opposite) ==
  \E edge \in aligned_edges(side, last.proposed) \cup aligned_edges(opposite, last.proposed) :
    /\ edge_compare(edge, side_xdir(side)) = side_coord(outer_rect, side)
    /\ ABS(edge_compare(edge, side_xdir(side)) - side_coord(last.old_outer, side)) < 8

\* C10: a mouse move in snap mode of fewer than 8 pixels on an axis never
\* snaps to an edge 8 or more pixels away: on that axis the window keeps its
\* position, or one of its two sides lands on an aligned edge less than 8
\* pixels from where that side was.
C10_SmallSnapMoveSuppressed ==
  IsMouseSnapMove =>
    /\ ABS(last.proposed.x - last.old_outer.x) < 8 =>
         \/ outer_rect.x = last.old_outer.x
         \/ snapped_nearby("LEFT", "RIGHT")
         \/ snapped_nearby("RIGHT", "LEFT")
    /\ ABS(last.proposed.y - last.old_outer.y) < 8 =>
         \/ outer_rect.y = last.old_outer.y
         \/ snapped_nearby("TOP", "BOTTOM")
         \/ snapped_nearby("BOTTOM", "TOP")

\* A move of 3 pixels to the right whose right side would snap to the edge
\* 10 pixels from where it was: the window stays where it was.
C10_Witness ==
  /\ IsMouseSnapMove
  /\ last.proposed.x - last.old_outer.x = 3
  /\ \A edge \in aligned_edges("RIGHT", last.proposed) \cup aligned_edges("LEFT", last.proposed) :
       edge_compare(edge, TRUE) > BOX_RIGHT(last.old_outer) =>
         edge_compare(edge, TRUE) - BOX_RIGHT(last.old_outer) >= 10
  /\ \E edge \in aligned_edges("RIGHT", last.proposed) :
       edge_compare(edge, TRUE) - BOX_RIGHT(last.old_outer) = 10
  /\ outer_rect = last.old_outer

(***************************************************************************)
(* Properties of the keyboard buildup                                      *)
(***************************************************************************)
\* A step that is one keyboard move of one pixel to the right.
IsRightPress ==
  /\ grab_edge_resistance_data # NULL
  /\ grab_op.keyboard
  /\ last'.fn = "move"
  /\ last'.proposed = [outer_rect EXCEPT !.x = @ + 1]

\* The right side lies on a window edge that aligns with the rectangle the
\* press proposes.
AtWindowEdge ==
  \E edge \in aligned_edges("RIGHT", [outer_rect EXCEPT !.x = @ + 1]) :
    /\ edge.edge_type = "WINDOW"
    /\ edge_compare(edge, TRUE) = BOX_RIGHT(outer_rect)

\* No edge aligned with the proposed rectangle holds the left side, which
\* moves along with the right one.
LeftSideFree ==
  \A edge \in aligned_edges("LEFT", [outer_rect EXCEPT !.x = @ + 1]) :
    edge_compare(edge, TRUE) \notin {BOX_LEFT(outer_rect), BOX_LEFT(outer_rect) + 1}

\* C6 as stated: a press towards the window edge is clamped as long as fewer
\* than 16 presses have been clamped there, so that the edge holds for 16
\* presses.
C6_ClampedForSixteenPresses ==
  [][(/\ IsRightPress
      /\ AtWindowEdge
      /\ grab_edge_resistance_data.right_data.keyboard_buildup
           < KEYBOARD_BUILDUP_THRESHOLD_TOWARDS_WINDOW)
     => outer_rect' = outer_rect]_vars

\* C6 as amended: the edge holds for 15 presses, each adding one to the
\* buildup, and the 16th press, made with a buildup of 15, passes the edge.
C6_SixteenthPressPasses ==
  [][(IsRightPress /\ AtWindowEdge) =>
       LET buildup == grab_edge_resistance_data.right_data.keyboard_buildup
       IN  /\ buildup < KEYBOARD_BUILDUP_THRESHOLD_TOWARDS_WINDOW - 1 =>
                /\ outer_rect' = outer_rect
                /\ grab_edge_resistance_data'.right_data.keyboard_buildup = buildup + 1
           /\ (buildup = KEYBOARD_BUILDUP_THRESHOLD_TOWARDS_WINDOW - 1 /\ LeftSideFree) =>
                /\ outer_rect' = [outer_rect EXCEPT !.x = @ + 1]
                /\ grab_edge_resistance_data'.right_data.keyboard_buildup = 0]_vars

\* The 16th press has just taken the right side one pixel past the window
\* edge the 15 presses before it were held at.
C6_Witness ==
  /\ grab_edge_resistance_data # NULL
  /\ grab_op.keyboard
  /\ last.fn = "move"
  /\ last.proposed = [last.old_outer EXCEPT !.x = @ + 1]
  /\ outer_rect = last.proposed
  /\ grab_edge_resistance_data.right_data.keyboard_buildup = 0
  /\ \E edge \in aligned_edges("RIGHT", outer_rect) :
       /\ edge.edge_type = "WINDOW"
       /\ edge_compare(edge, TRUE) = BOX_RIGHT(last.old_outer)

\* A step that is one keyboard move.
IsKeyboardMove ==
  /\ grab_edge_resistance_data # NULL
  /\ grab_op.keyboard
  /\ last'.fn = "move"

\* No edge of the side's array, aligned or not, lies where the side is after
\* the step.
AwayFromEveryEdge(side) ==
  LET edges == side_edges(grab_edge_resistance_data, side)
  IN  \A i \in DOMAIN edges :
        edge_compare(edges[i], side_xdir(side)) # side_coord(outer_rect', side)

\* C7: a keyboard move that takes a side with buildup to a coordinate where
\* none of its edges lies leaves the side with a buildup of 0, whatever moves
\* were made before, moves on the other axis included.
C7_BuildupResetAwayFromEdge ==
  [][IsKeyboardMove =>
       \A side \in Sides :
         (/\ side_data(grab_edge_resistance_data, side).keyboard_buildup # 0
          /\ side_coord(outer_rect', side) # side_coord(outer_rect, side)
          /\ AwayFromEveryEdge(side))
         => side_data(grab_edge_resistance_data', side).keyboard_buildup = 0]_vars

(***************************************************************************)
(* Properties of the searches                                              *)
(***************************************************************************)
\* The indices of the searched array, counted from 0, and the position of
\* the edge at an index.
search_indices == 0..(Len(search.edges) - 1)

search_position(i) == edge_compare(g_array_index(search.edges, i), TRUE)

\* Smallest index whose position is at least the coordinate, the length of
\* the array if there is none.
lower_boundary(position) ==
  LET at_least == {i \in search_indices : search_position(i) >= position}
  IN  IF at_least = {}
      THEN Len(search.edges)
      ELSE CHOOSE i \in at_least : \A j \in at_least : i <= j

\* Largest index whose position is at most the coordinate, -1 if there is
\* none.
upper_boundary(position) ==
  LET at_most == {i \in search_indices : search_position(i) <= position}
  IN  IF at_most = {}
      THEN -1
      ELSE CHOOSE i \in at_most : \A j \in at_most : i >= j

\* The answers the comment in find_index_of_edge_near_position gives for its
\* example array: position, want_interval_min, correct answer.
example_answers ==
  { <<500, TRUE, 5>>, <<805, FALSE, 7>>, <<316, TRUE, 2>>,
    <<316, FALSE, 4>>, <<2, FALSE, -1>>, <<2000, TRUE, 9>> }

\* C8: on a sorted array find_index_of_edge_near_position returns the
\* smallest index whose position is at least the coordinate (the length if
\* none) when the interval minimum is wanted, and the largest index whose
\* position is at most the coordinate (-1 if none) otherwise; on the example
\* array it returns the six values of the example.
C8_RangeBoundary ==
  search.call.fn = "find_index_of_edge_near_position" =>
    /\ search.call.result =
         IF search.call.want_interval_min
         THEN lower_boundary(search.call.position)
         ELSE upper_boundary(search.call.position)
    /\ search.edges = example_edges =>
         \A answer \in example_answers :
           (/\ search.call.position = answer[1]
            /\ search.call.want_interval_min = answer[2])
           => search.call.result = answer[3]

\* The example array was searched for 316 from below, where the answer is the
\* first of three equal positions.
C8_Witness ==
  /\ search.edges = example_edges
  /\ search.call.fn = "find_index_of_edge_near_position"
  /\ search.call.position = 316
  /\ search.call.want_interval_min
  /\ search.call.result = 2

\* The positions of the edges a nearest-position search may return: aligned
\* with the rectangle and, when only forward edges are wanted, not on the
\* same side of the target as the reference.
qualifying_positions ==
  {search_position(i) : i \in
     {j \in search_indices :
        /\ edges_align(g_array_index(search.edges, j), search_rect, TRUE)
        /\ \/ ~search.call.only_forward
           \/ (search_position(j) - search.call.position)
                * (search.call.old_position - search.call.position) <= 0}}

\* C9: find_nearest_position returns the position of a qualifying edge that
\* no other qualifying edge is closer to the target than, or the reference
\* when no edge qualifies.
C9_NearestAligned ==
  search.call.fn = "find_nearest_position" =>
    IF qualifying_positions = {}
    THEN search.call.result = search.call.old_position
    ELSE /\ search.call.result \in qualifying_positions
         /\ \A p \in qualifying_positions :
              ABS(search.call.result - search.call.position)
                <= ABS(p - search.call.position)

(***************************************************************************)
(* Properties of the reconciliation of a move                              *)
(***************************************************************************)
\* C11: a move never becomes a resize: whatever the four sides got
\* independently, both sides of an axis are displaced by the same amount, so
\* that the window keeps its width and its height.
C11_MoveKeepsSize ==
  (grab_edge_resistance_data # NULL /\ last.fn = "move") =>
    /\ outer_rect.width = last.old_outer.width
    /\ outer_rect.height = last.old_outer.height
    /\ BOX_LEFT(outer_rect) - BOX_LEFT(last.old_outer)
         = BOX_RIGHT(outer_rect) - BOX_RIGHT(last.old_outer)
    /\ BOX_TOP(outer_rect) - BOX_TOP(last.old_outer)
         = BOX_BOTTOM(outer_rect) - BOX_BOTTOM(last.old_outer)

\* The left and the right side got results that are not as far apart as the
\* window is wide, and the window has kept its width.
C11_Witness ==
  /\ grab_edge_resistance_data # NULL
  /\ last.fn = "move"
  /\ last.new_outer.width # last.old_outer.width
  /\ outer_rect.width = last.old_outer.width

(***************************************************************************)
(* Properties of the grab lifecycle                                        *)
(***************************************************************************)
\* The step ends the named functions on a failed assertion and writes
\* nothing else.
FailsAssertion(functions) ==
  /\ last'.fn = "abort"
  /\ last'.function \in functions
  /\ UNCHANGED <<grab_edge_resistance_data, grab_window, grab_op, outer_rect,
                 sources, timeout_log, use_after_free>>

\* The functions called on every pointer or key event.
PerEventFunctions ==
  {"meta_window_edge_resistance_for_move", "meta_window_edge_resistance_for_resize"}

\* C12: a call of meta_window_edge_resistance_for_move or _for_resize made
\* while there is no edge data fails an assertion: it hands back no result,
\* faults on no read of the missing data, changes no resistance data and
\* adds no timeout source; with edge data the assertion does not fail.
C12_NoCacheFailsFast ==
  [][/\ (/\ grab_edge_resistance_data = NULL
         /\ \/ last'.fn \in {"move", "resize"}
            \/ last'.fn \in {"abort", "crash"} /\ last'.function \in PerEventFunctions)
        => FailsAssertion(PerEventFunctions)
     /\ (last'.fn \in {"abort", "crash"} /\ last'.function \in PerEventFunctions)
        => grab_edge_resistance_data = NULL]_vars

\* A move was asked for after the grab's edge data was released, and failed
\* the assertion.
C12_Witness ==
  /\ last.fn = "abort"
  /\ last.function = "meta_window_edge_resistance_for_move"
  /\ grab_edge_resistance_data = NULL
  /\ timeout_log # <<>>
  /\ sources = {}

\* C13: the edge data exists exactly from a successful compute to the
\* cleanup: compute succeeds if and only if there is no edge data and leaves
\* edge data behind, cleanup succeeds if and only if there is edge data and
\* leaves none behind, either one fails an assertion otherwise, and nothing
\* else creates or releases the edge data.
C13_GrabLifecycle ==
  [][/\ last'.fn = "compute" =>
          grab_edge_resistance_data = NULL /\ grab_edge_resistance_data' # NULL
     /\ last'.fn = "cleanup" =>
          grab_edge_resistance_data # NULL /\ grab_edge_resistance_data' = NULL
     /\ (last'.fn = "abort" /\ last'.function = "cache_edges") =>
          grab_edge_resistance_data # NULL /\ FailsAssertion({"cache_edges"})
     /\ (last'.fn = "abort" /\ last'.function = "meta_display_cleanup_edges") =>
          /\ grab_edge_resistance_data = NULL
          /\ FailsAssertion({"meta_display_cleanup_edges"})
     /\ last'.fn \notin {"compute", "cleanup"} =>
          (grab_edge_resistance_data = NULL <=> grab_edge_resistance_data' = NULL)]_vars

\* A second compute was asked for during a grab that had already armed a
\* timeout, and failed the assertion of cache_edges.
C13_Witness ==
  /\ last.fn = "abort"
  /\ last.function = "cache_edges"
  /\ grab_edge_resistance_data # NULL
  /\ sources # {}

(***************************************************************************)
(* Properties of the searches on an empty array                            *)
(***************************************************************************)
\* C14: a search of an array without elements reads no element, does not
\* fault, and finds nothing: the index search gives the empty range (0 as
\* the lower boundary, -1 as the upper one) and the nearest-position search
\* gives back the reference position.
C14_EmptySequenceHandled ==
  (search.edges = <<>> /\ search.call # NoCall) =>
    /\ ~search.call.out_of_bounds
    /\ ~search.call.fault
    /\ search.call.result =
         IF search.call.fn = "find_nearest_position"
         THEN search.call.old_position
         ELSE IF search.call.want_interval_min THEN 0 ELSE -1

(***************************************************************************)
(* Properties of the edge extraction                                       *)
(***************************************************************************)
\* The four arrays of the edge data, one after the other.
cached_edges ==
  grab_edge_resistance_data.left_edges \o grab_edge_resistance_data.right_edges
    \o grab_edge_resistance_data.top_edges \o grab_edge_resistance_data.bottom_edges

\* The tests of the claim: the window is showing, on the screen of the grab,
\* not the grabbed window, and of none of the four types.
passes_all_tests(window) ==
  /\ window.showing
  /\ window.screen = "screen0"
  /\ window.id # grab_window
  /\ window.type \notin {"DESKTOP", "MENU", "SPLASHSCREEN", "DOCK"}

\* The edge lies on the outline of the window's rectangle.
on_outline(edge, window) ==
  IF edge.rect.width = 0
  THEN /\ edge.rect.x \in {BOX_LEFT(window.rect), BOX_RIGHT(window.rect)}
       /\ BOX_TOP(window.rect) <= BOX_TOP(edge.rect)
       /\ BOX_BOTTOM(edge.rect) <= BOX_BOTTOM(window.rect)
  ELSE /\ edge.rect.y \in {BOX_TOP(window.rect), BOX_BOTTOM(window.rect)}
       /\ BOX_LEFT(window.rect) <= BOX_LEFT(edge.rect)
       /\ BOX_RIGHT(edge.rect) <= BOX_RIGHT(window.rect)

\* C15: once the edges are computed, every Window-class edge of the four
\* arrays lies on the outline of a window of the stack that is showing, on
\* the screen of the grab, not the grabbed window, and neither a desktop, a
\* menu, a splash screen nor a dock; no Window-class edge lies on the outline
\* of a window that fails one of these tests.
C15_OnlyRelevantWindowsGiveEdges ==
  (grab_edge_resistance_data # NULL /\ last.fn = "compute") =>
    \A i \in DOMAIN cached_edges :
      cached_edges[i].edge_type = "WINDOW" =>
        /\ \E k \in DOMAIN last.stacked_windows :
             /\ passes_all_tests(last.stacked_windows[k])
             /\ on_outline(cached_edges[i], last.stacked_windows[k])
        /\ \A k \in DOMAIN last.stacked_windows :
             ~passes_all_tests(last.stacked_windows[k])
             => ~on_outline(cached_edges[i], last.stacked_windows[k])

\* The edges were computed for a stack with a showing dock on the screen of
\* the grab below a normal window, and there are Window-class edges.
C15_Witness ==
  /\ grab_edge_resistance_data # NULL
  /\ last.fn = "compute"
  /\ last.stacked_windows[1].type = "DOCK"
  /\ last.stacked_windows[1].showing
  /\ last.stacked_windows[1].screen = "screen0"
  /\ passes_all_tests(last.stacked_windows[2])
  /\ \E i \in DOMAIN cached_edges : cached_edges[i].edge_type = "WINDOW"

(***************************************************************************)
(* Properties of the cache                                                 *)
(***************************************************************************)
\* The edges handed to cache_edges by the grab that last began.
input_edges ==
  window_edges(last.stacked_windows, grab_window) \o xinerama_edges \o screen_edges

occurrences(edges, edge) == Cardinality({i \in DOMAIN edges : edges[i] = edge})

edge_position(edge) ==
  IF edge.side_type \in {"LEFT", "RIGHT"} THEN edge.rect.x ELSE edge.rect.y

edge_arrays(edge_data) ==
  IF edge_data = NULL
  THEN NULL
  ELSE [side \in {"LEFT", "RIGHT", "TOP", "BOTTOM"} |-> side_edges(edge_data, side)]

array_holds_its_side(edges, side, inputs) ==
  /\ \A i \in DOMAIN edges :
       /\ edges[i].side_type = side
       /\ edges[i].edge_type \in {"WINDOW", "XINERAMA", "SCREEN"}
       /\ occurrences(edges, edges[i]) = occurrences(inputs, edges[i])
  /\ \A k \in DOMAIN inputs :
       inputs[k].side_type = side => occurrences(edges, inputs[k]) >= 1
  /\ \A i \in DOMAIN edges :
       i > 1 => edge_position(edges[i - 1]) <= edge_position(edges[i])

cache_filled(edge_data, inputs) ==
  \A side \in {"LEFT", "RIGHT", "TOP", "BOTTOM"} :
    array_holds_its_side(side_edges(edge_data, side), side, inputs)

\* C16: once the edges are computed, each of the four arrays holds exactly
\* the input edges of its own side, each as often as it was given, in order
\* of non-decreasing position; and no move, resize or timeout changes the
\* arrays.
C16_CacheHoldsSortedInputs ==
  /\ [](last.fn = "compute" => cache_filled(grab_edge_resistance_data, input_edges))
  /\ [][last'.fn \in {"move", "resize", "timeout"}
          => edge_arrays(grab_edge_resistance_data')
               = edge_arrays(grab_edge_resistance_data)]_vars

\* A move was resisted with arrays in which window, xinerama and screen edges
\* stand together.
C16_Witness ==
  /\ last.fn = "move"
  /\ grab_edge_resistance_data # NULL
  /\ \A edge_type \in {"WINDOW", "XINERAMA", "SCREEN"} :
       \E i \in DOMAIN grab_edge_resistance_data.right_edges :
         grab_edge_resistance_data.right_edges[i].edge_type = edge_type
  /\ Len(grab_edge_resistance_data.right_edges) >= 3

\* C17: meta_display_cleanup_edges hands to g_free every Window-class edge
\* of the four arrays exactly once, and no xinerama or screen edge.
C17_CleanupFreesWindowEdgesOnce ==
  [][last'.fn = "cleanup" =>
       \A side \in {"LEFT", "RIGHT", "TOP", "BOTTOM"} :
         \A j \in DOMAIN side_edges(grab_edge_resistance_data, side) :
           occurrences(last'.freed, [array |-> side, index |-> j])
             = IF side_edges(grab_edge_resistance_data, side)[j].edge_type = "WINDOW"
               THEN 1 ELSE 0]_vars

\* A grab ended whose arrays held Window-class edges on the bottom side and
\* on another one, next to xinerama and screen edges.
C17_Witness ==
  /\ last.fn = "cleanup"
  /\ \E k \in DOMAIN last.freed : last.freed[k].array = "BOTTOM"
  /\ \E k \in DOMAIN last.freed : last.freed[k].array = "LEFT"

(***************************************************************************)
(* Properties of the resistance state at the start of a grab               *)
(***************************************************************************)
\* A field the allocation left unwritten holds no boolean and no number, so
\* a field's value is compared with an expected one by its printed form.
field_is(value, expected) == ToString(value) = ToString(expected)

\* C18: once the edges are computed, every side has no timer set
\* up, no timer handle, a timer not yet elapsed and no keyboard buildup.
C18_AllFieldsReset ==
  (last.fn = "compute") =>
    \A side \in Sides :
      /\ field_is(side_data(grab_edge_resistance_data, side).timeout_setup, FALSE)
      /\ field_is(side_data(grab_edge_resistance_data, side).timeout_id, 0)
      /\ field_is(side_data(grab_edge_resistance_data, side).timeout_over, FALSE)
      /\ field_is(side_data(grab_edge_resistance_data, side).keyboard_buildup, 0)

timed_edge(edge) == timeout_length_ms(edge, grab_window) # 0

\* The side as apply_edge_resistance hands it back is beyond the edge in the
\* direction of travel, and so is the side of the window after the call.
let_past_edge(side, edge) ==
  LET old_pos == side_coord(last.old_outer, side)
      new_pos == side_coord(last.proposed, side)
      compare == edge_compare(edge, side_xdir(side))
  IN  IF new_pos > old_pos
      THEN side_coord(last.new_outer, side) > compare /\ side_coord(outer_rect, side) > compare
      ELSE side_coord(last.new_outer, side) < compare /\ side_coord(outer_rect, side) < compare

\* The side's timeout was added for this edge, and its callback has run.
own_timeout_over(side, edge) ==
  /\ side_data(grab_edge_resistance_data, side).timeout_setup
  /\ field_is(side_data(grab_edge_resistance_data, side).timeout_over, TRUE)
  /\ side_data(grab_edge_resistance_data, side).timeout_edge_pos
       = edge_compare(edge, side_xdir(side))

\* C20: in mouse resistance mode a side that travels towards an aligned edge
\* whose class asks a timeout is let past the edge only once the callback of
\* the timeout added for that edge has run, never on a timeout added for
\* another edge.
C20_HeldUntilOwnTimeoutOver ==
  IsMouseResistanceMove =>
    \A side \in Sides :
      \A edge \in aligned_edges(side, last.proposed) :
        (timed_edge(edge) /\ crosses_edge(side, edge) /\ let_past_edge(side, edge))
        => own_timeout_over(side, edge)

(***************************************************************************)
(* Properties of the arming of timeouts                                    *)
(***************************************************************************)
\* The edge asks a timeout of the grabbed window on a side with this record:
\* a monitor boundary for a window that must stay on one monitor, or a
\* screen edge for a window that must stay on the screen, on a side the
\* screen edge does not hold for good.
arms_timeout(edge, resistance_data) ==
  \/ edge.edge_type = "XINERAMA" /\ require_on_single_xinerama(grab_window)
  \/ /\ edge.edge_type = "SCREEN"
     /\ require_fully_onscreen(grab_window)
     /\ resistance_data.allow_past_screen_edge

\* The coordinate lies in the closed interval between two coordinates.
lies_between(old_pos, compare, new_pos) ==
  \/ old_pos <= compare /\ compare <= new_pos
  \/ new_pos <= compare /\ compare <= old_pos

\* The call just made added a timeout for the side for a reason the claim
\* allows: a mouse call in resistance mode that takes the side towards an
\* aligned edge asking a timeout, at the position the record names.
armed_for_timed_edge(side) ==
  LET resistance_data == side_data(grab_edge_resistance_data, side)
      old_pos == side_coord(last.old_outer, side)
      new_pos == side_coord(last.proposed, side)
  IN  /\ ~last.snap
      /\ ~grab_op.keyboard
      /\ \E edge \in aligned_edges(side, last.proposed) :
           /\ arms_timeout(edge, resistance_data)
           /\ movement_towards_edge(edge.side_type, new_pos - old_pos)
           /\ lies_between(old_pos, edge_compare(edge, side_xdir(side)), new_pos)
           /\ resistance_data.timeout_edge_pos = edge_compare(edge, side_xdir(side))

timeout_pending(side, position) ==
  /\ grab_edge_resistance_data # NULL
  /\ side_data(grab_edge_resistance_data, side).timeout_setup
  /\ field_is(side_data(grab_edge_resistance_data, side).timeout_over, FALSE)
  /\ side_data(grab_edge_resistance_data, side).timeout_edge_pos = position

\* The proposed coordinate of the side is beyond the edge by the pixel
\* distance threshold of its class and of the direction of travel.
beyond_pixel_threshold(side, edge) ==
  LET old_pos == side_coord(last.old_outer, side)
      new_pos == side_coord(last.proposed, side)
  IN  ABS(edge_compare(edge, side_xdir(side)) - new_pos)
        >= pixel_distance_threshold(edge, IF new_pos > old_pos THEN 1 ELSE -1)

\* C22: the callback of a timeout sets timeout_over in the record of its
\* side; from then on a mouse move towards the edge of the timeout passes
\* the edge as soon as the proposed coordinate is beyond it by the pixel
\* distance threshold; and when the main loop runs its callbacks and the
\* user keeps pushing, a side held at a monitor boundary by a pending
\* timeout gets past the boundary.
C22_PassesOnceTimeoutOver ==
  /\ [][(last'.fn = "timeout" /\ grab_edge_resistance_data' # NULL)
          => field_is(side_data(grab_edge_resistance_data', last'.data).timeout_over, TRUE)]_vars
  /\ [](IsMouseResistanceMove =>
          \A side \in Sides :
            \A edge \in aligned_edges(side, last.proposed) :
              (/\ timed_edge(edge)
               /\ crosses_edge(side, edge)
               /\ own_timeout_over(side, edge)
               /\ beyond_pixel_threshold(side, edge))
              => let_past_edge(side, edge))
  /\ \A i \in DOMAIN monitors_workspace.xinerama_edges :
       timeout_pending("RIGHT", monitors_workspace.xinerama_edges[i].rect.x)
         ~> (BOX_RIGHT(outer_rect) > monitors_workspace.xinerama_edges[i].rect.x)

\* The right side was pushed past a monitor boundary whose timeout had run.
C22_Witness ==
  /\ IsMouseResistanceMove
  /\ \E edge \in aligned_edges("RIGHT", last.proposed) :
       /\ timed_edge(edge)
       /\ crosses_edge("RIGHT", edge)
       /\ own_timeout_over("RIGHT", edge)
       /\ beyond_pixel_threshold("RIGHT", edge)
       /\ let_past_edge("RIGHT", edge)

(***************************************************************************)
(* Properties of one call of apply_edge_resistance                         *)
(***************************************************************************)
\* The last call was one of apply_edge_resistance that proposed a movement.
resistance_call(keyboard_op) ==
  /\ search.call.fn = "apply_edge_resistance"
  /\ search.call.keyboard_op = keyboard_op
  /\ search.call.old_pos # search.call.new_pos

call_increasing == search.call.new_pos > search.call.old_pos

\* The indices of the aligned edges whose position lies in the closed
\* interval between the old and the proposed coordinate.
aligned_in_range ==
  {i \in DOMAIN search.edges :
     /\ edges_align(search.edges[i], search_rect, TRUE)
     /\ lies_between(search.call.old_pos, search.edges[i].rect.x, search.call.new_pos)}

\* The first of them in the direction of travel.
first_in_range ==
  CHOOSE i \in aligned_in_range :
    \A j \in aligned_in_range : IF call_increasing THEN i <= j ELSE i >= j

\* "Toward" an edge: decreasing for a left or top edge, increasing for a
\* right or bottom edge.
moving_toward(edge) ==
  IF edge.side_type \in {"LEFT", "TOP"} THEN ~call_increasing ELSE call_increasing

distance_beyond(edge) == ABS(edge.rect.x - search.call.new_pos)

\* The screen-edge barrier applies to the edge.
barrier_blocks(edge) ==
  /\ edge.edge_type = "SCREEN"
  /\ moving_toward(edge)
  /\ ~search.call.resistance_data.allow_past_screen_edge

\* The side came with a timeout that is still relevant and has run.
came_with_timeout_over ==
  /\ search.call.resistance_data.timeout_setup
  /\ search.call.resistance_data.timeout_over
  /\ lies_between(search.call.old_pos,
                  search.call.resistance_data.timeout_edge_pos,
                  search.call.new_pos)

\* Timeout resistance applies to the edge and holds the side.
timeout_blocks(edge) ==
  /\ moving_toward(edge)
  /\ \/ edge.edge_type = "XINERAMA" /\ require_on_single_xinerama(search.call.window)
     \/ edge.edge_type = "SCREEN" /\ require_fully_onscreen(search.call.window)
  /\ ~came_with_timeout_over

\* The pixel thresholds by class and direction.
stated_pixel_threshold(edge) ==
  CASE edge.edge_type = "WINDOW" -> IF moving_toward(edge) THEN 16 ELSE 8
    [] edge.edge_type = "XINERAMA" -> IF moving_toward(edge) THEN 32 ELSE 8
    [] edge.edge_type = "SCREEN" -> IF moving_toward(edge) THEN 32 ELSE 8

\* C23: in a mouse call, when the first aligned edge of the range is held
\* neither by the barrier nor by timeout resistance, the side is clamped at
\* the edge while the proposed coordinate is less than the pixel threshold
\* of the edge's class and direction beyond it, and from the threshold on
\* the edge lets it past: the result is the proposed coordinate or the
\* coordinate of a later aligned edge of the range.
C23_PixelDistanceResistance ==
  (resistance_call(FALSE) /\ aligned_in_range # {}) =>
    LET edge == search.edges[first_in_range]
    IN  (~barrier_blocks(edge) /\ ~timeout_blocks(edge)) =>
          IF distance_beyond(edge) < stated_pixel_threshold(edge)
          THEN search.call.result.pos = edge.rect.x
          ELSE search.call.result.pos \in
                 {search.call.new_pos} \cup
                 {search.edges[j].rect.x : j \in aligned_in_range \ {first_in_range}}

\* A window edge held the side 15 pixels short of the proposed coordinate,
\* in the direction towards it.
C23_Witness ==
  /\ resistance_call(FALSE)
  /\ aligned_in_range # {}
  /\ search.edges[first_in_range].edge_type = "WINDOW"
  /\ moving_toward(search.edges[first_in_range])
  /\ distance_beyond(search.edges[first_in_range]) = 15
  /\ search.call.result.pos = search.edges[first_in_range].rect.x

\* The keyboard resistance by class and direction.
stated_keyboard_resistance(edge) ==
  CASE edge.edge_type = "WINDOW" -> 16
    [] edge.edge_type = "XINERAMA" -> IF moving_toward(edge) THEN 24 ELSE 16
    [] edge.edge_type = "SCREEN" -> IF moving_toward(edge) THEN 32 ELSE 16

\* C24: in a keyboard call, when the proposed coordinate is less than the
\* resistance of the first aligned edge of the range minus the buildup
\* beyond the edge, the call returns the coordinate of the edge and the
\* buildup grows by the distance (from 0 it becomes 1); otherwise the edge
\* is passed: the result is the proposed coordinate or the coordinate of a
\* later aligned edge, and when no edge held the side the buildup has not
\* grown.
C24_KeyboardStep ==
  (resistance_call(TRUE) /\ aligned_in_range # {}) =>
    LET edge == search.edges[first_in_range]
        buildup == search.call.resistance_data.keyboard_buildup
        later == {search.edges[j].rect.x : j \in aligned_in_range \ {first_in_range}}
    IN  IF distance_beyond(edge) < stated_keyboard_resistance(edge) - buildup
        THEN /\ search.call.result.pos = edge.rect.x
             /\ search.call.result.data.keyboard_buildup =
                  IF buildup = 0 THEN 1 ELSE buildup + distance_beyond(edge)
        ELSE /\ search.call.result.pos \in {search.call.new_pos} \cup later
             /\ search.call.result.pos \notin later
                  => search.call.result.data.keyboard_buildup \in {0, buildup}

\* A monitor boundary held the side with a buildup of 15, 8 pixels short of
\* the proposed coordinate, and the buildup became 23.
C24_Witness ==
  /\ resistance_call(TRUE)
  /\ aligned_in_range # {}
  /\ search.edges[first_in_range].edge_type = "XINERAMA"
  /\ moving_toward(search.edges[first_in_range])
  /\ search.call.resistance_data.keyboard_buildup = 15
  /\ distance_beyond(search.edges[first_in_range]) = 8
  /\ search.call.result.pos = search.edges[first_in_range].rect.x
  /\ search.call.result.data.keyboard_buildup = 23

\* The C indices of the edges whose position lies in the closed interval
\* between the old and the proposed coordinate.
indices_in_range ==
  {i - 1 : i \in {j \in DOMAIN search.edges :
                    lies_between(search.call.old_pos, search.edges[j].rect.x,
                                 search.call.new_pos)}}

\* i comes before j in the direction of travel.
travels_before(i, j) == IF call_increasing THEN i < j ELSE i > j

\* The buildup a keyboard call holds against the aligned edge at the index:
\* the one it came with, unless an aligned edge at another coordinate was
\* passed before.
buildup_against(i) ==
  IF \E j \in aligned_in_range :
       /\ travels_before(j, i)
       /\ search.edges[j].rect.x # search.edges[i].rect.x
  THEN 0
  ELSE search.call.resistance_data.keyboard_buildup

\* The aligned edge blocks: in a mouse call by the barrier, by timeout
\* resistance or by pixel distance; in a keyboard call by the buildup.
blocks(i) ==
  IF search.call.keyboard_op
  THEN distance_beyond(search.edges[i])
         < stated_keyboard_resistance(search.edges[i]) - buildup_against(i)
  ELSE \/ barrier_blocks(search.edges[i])
       \/ timeout_blocks(search.edges[i])
       \/ distance_beyond(search.edges[i]) < stated_pixel_threshold(search.edges[i])

blocking_in_range == {i \in aligned_in_range : blocks(i)}

first_blocking ==
  CHOOSE i \in blocking_in_range :
    \A j \in blocking_in_range : i = j \/ travels_before(i, j)

\* C25: a call reads the array only at indices 0..len-1, at the edges whose
\* position lies in the closed interval between the old and the proposed
\* coordinate, in the direction of travel and no further than the first
\* aligned edge that blocks; the result is the coordinate of that edge, or
\* the proposed coordinate when no aligned edge of the interval blocks.
C25_WalksTheClosedInterval ==
  (search.call.fn = "apply_edge_resistance"
     /\ search.call.old_pos # search.call.new_pos) =>
    /\ search.call.result.read \subseteq 0 .. (Len(search.edges) - 1)
    /\ IF blocking_in_range = {}
       THEN /\ search.call.result.pos = search.call.new_pos
            /\ search.call.result.read = indices_in_range
       ELSE /\ search.call.result.pos = search.edges[first_blocking].rect.x
            /\ search.call.result.read =
                 {i \in indices_in_range : ~travels_before(first_blocking - 1, i)}

\* A call went over an edge that is not aligned and one that let it past,
\* and was stopped by neither.
C25_Witness ==
  /\ search.call.fn = "apply_edge_resistance"
  /\ search.call.old_pos # search.call.new_pos
  /\ Cardinality(indices_in_range) = 2
  /\ Cardinality(aligned_in_range) = 1
  /\ search.call.result.read = indices_in_range
  /\ search.call.result.pos = search.call.new_pos

(***************************************************************************)
(* Properties of a call that proposes no movement                          *)
(***************************************************************************)
\* The two records agree in every field.
same_resistance_data(a, b) ==
  /\ field_is(a.timeout_setup, b.timeout_setup)
  /\ field_is(a.timeout_id, b.timeout_id)
  /\ field_is(a.timeout_edge_pos, b.timeout_edge_pos)
  /\ field_is(a.timeout_over, b.timeout_over)
  /\ field_is(a.timeout_func, b.timeout_func)
  /\ field_is(a.window, b.window)
  /\ field_is(a.keyboard_buildup, b.keyboard_buildup)
  /\ field_is(a.allow_past_screen_edge, b.allow_past_screen_edge)

\* C26: when the old and the proposed coordinate are equal,
\* apply_edge_resistance and apply_edge_snapping return the proposed
\* coordinate; apply_edge_resistance leaves the record of the side as it
\* was, removes and adds no timeout and reads no edge.
C26_NoMovementNoChange ==
  /\ (search.call.fn = "apply_edge_resistance"
        /\ search.call.old_pos = search.call.new_pos) =>
       /\ search.call.result.pos = search.call.new_pos
       /\ same_resistance_data(search.call.result.data, search.call.resistance_data)
       /\ search.call.result.removed = {}
       /\ ~search.call.result.added
       /\ search.call.result.read = {}
  /\ (search.call.fn = "apply_edge_snapping"
        /\ search.call.old_pos = search.call.new_pos) =>
       search.call.result = search.call.new_pos

\* A mouse call with a pending timeout for the coordinate 0 and an aligned
\* monitor boundary there proposed the coordinate the side was at, 1.
C26_Witness ==
  /\ search.call.fn = "apply_edge_resistance"
  /\ ~search.call.keyboard_op
  /\ search.call.old_pos = 1
  /\ search.call.new_pos = 1
  /\ search.call.resistance_data.timeout_setup
  /\ search.call.result.pos = 1
  /\ \E i \in DOMAIN search.edges :
       /\ search.edges[i].edge_type = "XINERAMA"
       /\ edges_align(search.edges[i], search_rect, TRUE)

(***************************************************************************)
(* Properties of the reconciliation of a move                              *)
(***************************************************************************)
\* The rectangle the changes of the sides are measured from.
stated_reference ==
  IF search.call.snap /\ ~search.call.is_keyboard_op
  THEN search.call.proposed_outer
  ELSE reconcile_old_outer

\* The change an axis is given: the one of smaller absolute value, the one of
\* the right or bottom side on a tie; in a keyboard snap, the other one when
\* one of the two is zero.
stated_change(first_change, second_change) ==
  IF search.call.snap /\ search.call.is_keyboard_op
       /\ (first_change = 0 \/ second_change = 0)
  THEN (IF first_change = 0 THEN second_change ELSE first_change)
  ELSE IF ABS(first_change) < ABS(second_change)
  THEN first_change
  ELSE second_change

\* C27: a move displaces the window, on each axis, from where the reference
\* rectangle puts it by the change of the side whose change from the
\* reference is smaller in absolute value (right or bottom on a tie); the
\* reference is the old rectangle, or the proposed one in a mouse snap; in a
\* keyboard snap the change of the other side is used when one side's
\* change is zero.
C27_MoveTakesSmallerChange ==
  search.call.fn = "reconcile_move" =>
    LET reference == stated_reference
        new_outer == search.call.new_outer
    IN  /\ search.call.result.new_x =
             reconcile_old_x + (reference.x - reconcile_old_outer.x)
               + stated_change(BOX_LEFT(new_outer) - BOX_LEFT(reference),
                               BOX_RIGHT(new_outer) - BOX_RIGHT(reference))
        /\ search.call.result.new_y =
             reconcile_old_y + (reference.y - reconcile_old_outer.y)
               + stated_change(BOX_TOP(new_outer) - BOX_TOP(reference),
                               BOX_BOTTOM(new_outer) - BOX_BOTTOM(reference))

\* A keyboard snap left the left side where it was and took the right side
\* one to the left: the window moved by the change of the right side.
C27_Witness ==
  /\ search.call.fn = "reconcile_move"
  /\ search.call.snap
  /\ search.call.is_keyboard_op
  /\ BOX_LEFT(search.call.new_outer) = BOX_LEFT(reconcile_old_outer)
  /\ BOX_RIGHT(search.call.new_outer) - BOX_RIGHT(reconcile_old_outer) = -1
  /\ search.call.result.new_x = reconcile_old_x - 1

(***************************************************************************)
(* Properties of one call of apply_edge_snapping                           *)
(***************************************************************************)
\* The coordinates of the aligned edges of the two arrays of the call.
snap_coordinates ==
  {search.edges[i].rect.x :
     i \in {j \in DOMAIN search.edges :
              edges_align(search.edges[j], search_rect, TRUE)}}
  \cup {search.call.edges2[i].rect.x :
          i \in {j \in DOMAIN search.call.edges2 :
                   edges_align(search.call.edges2[j], search_rect, TRUE)}}

\* The coordinate lies on the side of the old coordinate the call proposed
\* to go to.
ahead_of_old(position) ==
  (position - search.call.old_pos) * (search.call.new_pos - search.call.old_pos) > 0

\* C28: a keyboard snap returns the old coordinate or the coordinate of an
\* aligned edge that lies on the same side of the old coordinate as the
\* proposed one: never a coordinate behind the old one.
C28_KeyboardSnapOnlyForward ==
  (search.call.fn = "apply_edge_snapping"
     /\ search.call.keyboard_op
     /\ search.call.old_pos # search.call.new_pos) =>
    \/ search.call.result = search.call.old_pos
    \/ /\ search.call.result \in snap_coordinates
       /\ ahead_of_old(search.call.result)

\* A keyboard snap went to an aligned edge ahead, another aligned edge lying
\* behind the old coordinate.
C28_Witness ==
  /\ search.call.fn = "apply_edge_snapping"
  /\ search.call.keyboard_op
  /\ search.call.old_pos # search.call.new_pos
  /\ search.call.result \in snap_coordinates
  /\ ahead_of_old(search.call.result)
  /\ \E behind \in snap_coordinates :
       /\ ~ahead_of_old(behind)
       /\ behind # search.call.old_pos

(***************************************************************************)
(* Properties of a resize                                                  *)
(***************************************************************************)
\* What the side is given when it is treated alone: the result of
\* apply_edge_snapping or of apply_edge_resistance for its own coordinates,
\* arrays and record.
side_alone(side, snap, old_outer, proposed) ==
  IF snap
  THEN apply_edge_snapping(
         side_coord(old_outer, side), side_coord(proposed, side), proposed,
         side_edges(grab_edge_resistance_data,
                    IF side_xdir(side) THEN "LEFT" ELSE "TOP"),
         side_edges(grab_edge_resistance_data,
                    IF side_xdir(side) THEN "RIGHT" ELSE "BOTTOM"),
         side_xdir(side), grab_op.keyboard)
  ELSE apply_edge_resistance(
         grab_window, side_coord(old_outer, side), side_coord(proposed, side),
         proposed, side_edges(grab_edge_resistance_data, side),
         side_data(grab_edge_resistance_data, side), "onRelease",
         side_xdir(side), grab_op.keyboard, 0).pos

\* C29: a resize gives each side the coordinate the side is given when it
\* is treated alone; the width and the height handed back are the old ones
\* plus the difference between the resulting and the old outer size; and a
\* side whose proposed coordinate is its old one stays where it was.
C29_ResizeSideBySide ==
  /\ [][(last'.fn = "resize" /\ grab_edge_resistance_data # NULL /\ ~halted) =>
          \A side \in Sides :
            side_coord(last'.new_outer, side) =
              side_alone(side, last'.snap, last'.old_outer, last'.proposed)]_vars
  /\ [](last.fn = "resize" =>
          /\ last.new_width =
               last.old_outer.width + (last.new_outer.width - last.old_outer.width)
          /\ last.new_height =
               last.old_outer.height + (last.new_outer.height - last.old_outer.height)
          /\ \A side \in Sides :
               side_coord(last.old_outer, side) = side_coord(last.proposed, side)
                 => side_coord(last.new_outer, side) = side_coord(last.old_outer, side))

\* A resize was proposed that keeps the left side, and the right side was
\* not given the proposed coordinate.
C29_Witness ==
  /\ last.fn = "resize"
  /\ BOX_LEFT(last.proposed) = BOX_LEFT(last.old_outer)
  /\ BOX_LEFT(last.new_outer) = BOX_LEFT(last.old_outer)
  /\ BOX_RIGHT(last.proposed) # BOX_RIGHT(last.old_outer)
  /\ BOX_RIGHT(last.new_outer) # BOX_RIGHT(last.proposed)

(***************************************************************************)
(* Properties of the keyboard buildup within one call                      *)
(***************************************************************************)
\* The call is a keyboard call over an array of two aligned edges, both in
\* the range, and the first of them in the direction of travel let the side
\* past with the buildup the call came with.
passed_first_of_two ==
  /\ resistance_call(TRUE)
  /\ Len(search.edges) = 2
  /\ aligned_in_range = {1, 2}
  /\ ~blocks(first_in_range)

second_in_range == CHOOSE i \in aligned_in_range : i # first_in_range

\* C30: in a keyboard call that passes an aligned edge, the next aligned
\* edge is held against the buildup the call came with when it lies at the
\* same coordinate, and against a buildup of 0 when it lies at another
\* coordinate: the call stops there exactly when the proposed coordinate is
\* less than the resistance of that edge, less that buildup, beyond it.
C30_BuildupTiedToCoordinate ==
  passed_first_of_two =>
    LET first == search.edges[first_in_range]
        second == search.edges[second_in_range]
        buildup == IF second.rect.x = first.rect.x
                   THEN search.call.resistance_data.keyboard_buildup
                   ELSE 0
        stops == distance_beyond(second) < stated_keyboard_resistance(second) - buildup
    IN  IF stops
        THEN /\ search.call.result.pos = second.rect.x
             /\ search.call.result.data.keyboard_buildup =
                  IF buildup = 0 THEN 1 ELSE buildup + distance_beyond(second)
        ELSE search.call.result.pos = search.call.new_pos

\* With a buildup of 15 the call passed a window edge 15 pixels behind the
\* proposed coordinate and was stopped by a window edge at another
\* coordinate, which the buildup of 15 would have let it past.
C30_Witness ==
  /\ passed_first_of_two
  /\ search.call.resistance_data.keyboard_buildup = 15
  /\ search.edges[first_in_range].rect.x # search.edges[second_in_range].rect.x
  /\ search.edges[second_in_range].edge_type = "WINDOW"
  /\ distance_beyond(search.edges[second_in_range]) >= 1
  /\ search.call.result.pos = search.edges[second_in_range].rect.x
  /\ search.call.result.data.keyboard_buildup = 1

(***************************************************************************)
(* Properties of the windows that obscure edges                            *)
(***************************************************************************)
\* The window passes the tests that make its edges relevant (a dock passes
\* them too).
edge_relevant(window) ==
  /\ window.showing
  /\ window.screen = "screen0"
  /\ window.id # grab_window
  /\ window.type \notin {"DESKTOP", "MENU", "SPLASHSCREEN"}

\* The outer rectangles of the edge-relevant windows stacked strictly above
\* the list position k, bottom to top.
RECURSIVE relevant_above(_, _)
relevant_above(k, j) ==
  IF j > Len(last.stacked_windows)
  THEN <<>>
  ELSE (IF j > k /\ edge_relevant(last.stacked_windows[j])
        THEN <<last.stacked_windows[j].rect>>
        ELSE <<>>)
       \o relevant_above(k, j + 1)

\* C31: once the edges are computed, the windows whose edges were cut are
\* the edge-relevant windows that are no dock, and the rectangles taken out
\* of the edges of each are exactly the outer rectangles of the
\* edge-relevant windows, docks included, that are stacked strictly above
\* it.
C31_ObscuredByRelevantWindowsAbove ==
  last.fn = "compute" =>
    /\ {last.per_window[i].stack_position + 1 : i \in DOMAIN last.per_window} =
         {k \in DOMAIN last.stacked_windows :
            /\ edge_relevant(last.stacked_windows[k])
            /\ last.stacked_windows[k].type # "DOCK"}
    /\ \A i \in DOMAIN last.per_window :
         last.per_window[i].rem_windows =
           relevant_above(last.per_window[i].stack_position + 1, 1)

\* The edges were computed for a stack of a normal window below a window
\* that is not edge-relevant below a dock: the dock's rectangle alone was
\* taken out of the edges of the normal window, and cut them.
C31_Witness ==
  /\ last.fn = "compute"
  /\ Len(last.stacked_windows) = 4
  /\ last.stacked_windows[1].type = "NORMAL"
  /\ ~edge_relevant(last.stacked_windows[2])
  /\ last.stacked_windows[3].type = "DOCK"
  /\ last.per_window[1].rem_windows = <<last.stacked_windows[3].rect>>
  /\ last.per_window[1].new_edges #
       edges_of_window(meta_rectangle_intersect(last.stacked_windows[1].rect,
                                                screen_rect))

(***************************************************************************)
(* Properties of allow_past_screen_edge                                    *)
(***************************************************************************)
\* A grab is in progress: the edge data are there.
grab_in_progress == grab_edge_resistance_data # NULL

\* What the grab allows of a side at the screen edge.
allow_past(side) ==
  side_data(grab_edge_resistance_data, side).allow_past_screen_edge

\* C32: the call that computes the edges sets allow_past_screen_edge to TRUE
\* for the left, right and bottom sides, and for the top side to whether the
\* grab anchor's y is at or below the window's initial y; and no move, no
\* resize and no timeout that runs while the grab goes on changes the value
\* of any side.
C32_AllowPastFixedPerGrab ==
  /\ [](last.fn = "compute" =>
          /\ allow_past("LEFT") = TRUE
          /\ allow_past("RIGHT") = TRUE
          /\ allow_past("BOTTOM") = TRUE
          /\ allow_past("TOP") = (last.grab_anchor_root_y >= outer_rect.y))
  /\ [][grab_in_progress /\ grab_in_progress' =>
          \A side \in Sides : allow_past(side)' = allow_past(side)]_vars

\* A grab taken with the anchor above the window's top, so that its top side
\* is not let past the screen edge, has seen a move add a timeout and the
\* timeout run.
C32_Witness ==
  /\ grab_in_progress
  /\ last.fn = "timeout"
  /\ allow_past("TOP") = FALSE
  /\ allow_past("LEFT") = TRUE

(***************************************************************************)
(* Properties of the timer fields of a side                                *)
(***************************************************************************)
\* C33: while a grab goes on, a side whose timeout_id is not zero has
\* timeout_setup set and timeout_over clear, and its timeout_id is not zero
\* exactly when a source is pending for the side under that id.
C33_TimerBookkeeping ==
  grab_in_progress =>
    \A side \in Sides :
      LET resistance_data == side_data(grab_edge_resistance_data, side)
      IN  /\ ~field_is(resistance_data.timeout_id, 0) =>
               /\ field_is(resistance_data.timeout_setup, TRUE)
               /\ field_is(resistance_data.timeout_over, FALSE)
          /\ ~field_is(resistance_data.timeout_id, 0) <=>
               \E s \in pending_for(side) :
                 field_is(s.id, resistance_data.timeout_id)

(***************************************************************************)
(* Properties of the range of the results                                  *)
(***************************************************************************)
\* The last call was a move or a resize in resistance mode.
resistance_mode_call(fns) == last.fn \in fns /\ ~last.snap

\* C34: after a move or a resize in resistance mode, the coordinate
\* apply_edge_resistance handed back for each side lies in the closed
\* interval between the side's old and proposed coordinate; and after a move
\* the window's x and y lie between the old and the proposed x and y.  This
\* holds for mouse and keyboard grabs, whatever the timeouts and the buildup.
C34_ResultBetweenOldAndProposed ==
  /\ resistance_mode_call({"move", "resize"}) =>
       \A side \in Sides :
         lies_between(side_coord(last.old_outer, side),
                      side_coord(last.new_outer, side),
                      side_coord(last.proposed, side))
  /\ resistance_mode_call({"move"}) =>
       /\ lies_between(last.old_outer.x, outer_rect.x, last.proposed.x)
       /\ lies_between(last.old_outer.y, outer_rect.y, last.proposed.y)

\* A keyboard move in resistance mode was held back by an edge it had built
\* up against before: the window is not where the key press proposed.
C34_Witness ==
  /\ resistance_mode_call({"move"})
  /\ grab_op.keyboard
  /\ outer_rect.x # last.proposed.x
  /\ \E side \in Sides :
       side_data(grab_edge_resistance_data, side).keyboard_buildup > 1

(***************************************************************************)
(* Properties of the range and the writers of keyboard_buildup             *)
(***************************************************************************)
keyboard_buildup_of(side) ==
  side_data(grab_edge_resistance_data, side).keyboard_buildup

\* C35: while a grab goes on the keyboard_buildup of every side is between
\* 0 and 31; and a step changes a side's keyboard_buildup only when it is a
\* move call in resistance mode with is_keyboard_op set that proposes another
\* coordinate for that side.  Calls with is_keyboard_op clear, calls in snap
\* mode, timeouts that run and calls that leave the side where it is leave
\* its keyboard_buildup as it was.
C35_BuildupRangeAndWriters ==
  /\ [](grab_in_progress =>
          \A side \in Sides : keyboard_buildup_of(side) \in 0 .. 31)
  /\ [][grab_in_progress /\ grab_in_progress' =>
          \A side \in Sides :
            keyboard_buildup_of(side)' # keyboard_buildup_of(side) =>
              /\ last'.fn = "move"
              /\ last'.is_keyboard_op
              /\ ~last'.snap
              /\ side_coord(last'.old_outer, side)
                   # side_coord(last'.proposed, side)]_vars

\* A side has the largest buildup, 31, from key presses against the edge of
\* the screen, while a timeout that a mouse call added for another side has
\* run.
C35_Witness ==
  /\ grab_in_progress
  /\ last.fn = "timeout"
  /\ \E side \in Sides :
       /\ keyboard_buildup_of(side) = 31
       /\ last.data # side

====
